---- MODULE Spec2Model ----
(***************************************************************************)
(* The stream attach / retry state machine of the NSPlayer component and   *)
(* the page (Index) that mounts it.                                        *)
(*                                                                         *)
(* A string is modelled as a sequence of tokens, so that String.includes   *)
(* is a real substring search.  The page mounts NSPlayer only while        *)
(* streamUrl is non-empty; the player's React state lives as long as the   *)
(* mounted component.  A React effect runs in the same commit as the state *)
(* change that triggers it, so the cleanup and the effect body are part of *)
(* the action that changes src or connectionMethod.  The dynamic import of *)
(* the streaming library is the one asynchronous gap of an attach attempt: *)
(* it is a step of its own.                                                *)
(*                                                                         *)
(* No code path destroys a streaming client, so every client ever created  *)
(* stays alive.  The clients of the mounted player that can still raise    *)
(* events are kept one by one; those that stopped after a fatal error, and *)
(* those of players that were unmounted (whose state setters do nothing),  *)
(* are counted.                                                            *)
(*                                                                         *)
(* Around the player the page holds the seek request (seekTo), the         *)
(* commentary panel (mounted with the player) and the stream input         *)
(* (mounted while no player is) with its catalog fetch.  Each part has a   *)
(* specification of its own over the same variables: Spec follows the      *)
(* attach and retry steps, SpecAttach the attach algorithm over many       *)
(* locators, SpecRequests the requests of the streaming clients, SpecSeek  *)
(* the seek requests and time reports, SpecCommentary the commentary       *)
(* timer, SpecCatalog the catalog fetch and the stream input,              *)
(* SpecHighlights the highlights panel, SpecPanels the timers of both      *)
(* panels, SpecEmbed the embed URL of IframePlayer and SpecVideoPlayer the *)
(* streaming clients of VideoPlayer, the player of the earlier page, and   *)
(* SpecPlayback the play button of the player; SpecFormat gives           *)
(* formatTime every time up to MaxSeconds.                                 *)
(***************************************************************************)
EXTENDS Integers, Sequences, FiniteSets

\* ------------------------------------------------------------- bounds
\* Effect runs (attach attempts) the model follows, over all players.
MaxRuns == 5

\* User actions (method selection, Retry, Try Next Method) the model follows
\* on one mounted player.
MaxUserActions == 1

\* Tokens of a locator handed to the attach algorithm.
MaxLocatorLen == 3

\* Clicks on the play button of one mounted player.
MaxToggles == 3

\* The longest time, in seconds, formatTime is given.
MaxSeconds == 6005

\* Entries one mounted commentary panel adds.
MaxCommentary == 60

\* .slice(0, 50) of addCommentary.
KeepLatest == 50

\* Entries of the matches array of a fetched catalog document.
MaxEntries == 2

\* Seek requests (handleSeekTo calls) the model follows.
MaxSeeks == 2

\* The largest playback position and media duration the model follows.
MaxTime == 2

\* Streaming clients the model lets the VideoPlayer components create.
MaxClients == 3

\* Recovery timeouts of VideoPlayer that wait at the same time.
MaxRecoveries == 1

\* Highlights the model lets one panel generate.
MaxHighlights == 2

\* The period of the highlights interval, in ticks of the clock.
HighlightPeriod == 2

\* ------------------------------------------------------------- strings
EmptyString == <<>>

HlsLocator == <<"live", ".", "m3u8">>

NativeLocator == <<"clip", ".", "mp4">>

Locators == {HlsLocator, NativeLocator}

\* Titles handed to handleStreamLoad.
Titles == {<<"Match">>}

\* String.prototype.includes: pat occurs in s as a contiguous run.
Includes(s, pat) ==
    \E k \in 0..Len(s) :
        /\ k + Len(pat) <= Len(s)
        /\ \A j \in 1..Len(pat) : s[k + j] = pat[j]

\* The weaker test of the custom-entry path: src.includes('m3u8').
IsHlsSource_NoDot(src) == Includes(src, <<"m3u8">>)

\* src.includes('.m3u8')
IsHlsSource(src) == Includes(src, <<".", "m3u8">>)

\* The object URL of the MediaSource that attachMedia puts on the element.
BlobUrl == <<"blob:">>

\* ------------------------------------------------------------- table
connectionMethods == <<"direct", "android", "vlc", "hls">>

NumMethods == Len(connectionMethods)

\* connectionMethods[..].headers: the header set of each entry, as pairs of
\* header name and value.
headers(id) ==
    CASE id = "direct"  -> {<<"User-Agent", "NSPlayer/1.0">>,
                            <<"Accept", "*/*">>,
                            <<"Connection", "keep-alive">>}
      [] id = "android" -> {<<"User-Agent", "ExoPlayerLib/2.18.1">>,
                            <<"Accept", "application/vnd.apple.mpegurl">>,
                            <<"Accept-Encoding", "gzip, deflate">>}
      [] id = "vlc"     -> {<<"User-Agent", "VLC/3.0.16 LibVLC/3.0.16">>,
                            <<"Accept", "*/*">>,
                            <<"Range", "bytes=0-">>}
      [] id = "hls"     -> {<<"User-Agent", "Mozilla/5.0 (Linux; Android 11; SM-G973F) AppleWebKit/537.36">>,
                            <<"Accept", "application/vnd.apple.mpegurl, application/x-mpegURL, application/octet-stream">>,
                            <<"Origin", "https://www.sonyliv.com">>,
                            <<"Referer", "https://www.sonyliv.com/">>}

\* No request has been issued.
NoRequest == [kind |-> "none"]

\* connectionMethods.findIndex(m => m.id === id), 0-based.
findIndex(id) ==
    IF \E i \in 1..NumMethods : connectionMethods[i] = id
      THEN (CHOOSE i \in 1..NumMethods : connectionMethods[i] = id) - 1
      ELSE 0 - 1

\* connectionMethods[k].id, 0-based.
methodAt(k) == connectionMethods[k + 1]

\* An initial method other than the first of the table.
InitialConnectionMethod_Last == "hls"

\* An initial method that no table entry has.
InitialConnectionMethod_Unknown == "auto"

\* useState('direct')
InitialConnectionMethod == "direct"

AllFailedMessage == <<"All connection methods failed">>

\* The catch with an empty message.
FailedToLoadMessage_Empty(id) == <<>>

FailedToLoadMessage(id) == <<"Failed to load with", id, "method">>

NoMessage == <<>>

\* ------------------------------------------------------------- state
VARIABLES
    streamUrl,          \* Index: the locator; NSPlayer is mounted iff non-empty
    streamTitle,        \* Index state
    pageIsLoading,      \* Index state isLoading
    pageCurrentTime,    \* Index state currentTime
    connectionMethod,   \* NSPlayer state: id of the active connection method
    hasError,           \* NSPlayer state
    errorMessage,       \* NSPlayer state
    isLoading,          \* NSPlayer state
    videoSrc,           \* the media element's source: empty, BlobUrl or a locator
    canplayListeners,   \* once-listeners for canplay on the media element
    errorListeners,     \* once-listeners for error on the media element
    pending,            \* attempts of the mounted player awaiting the import (FIFO)
    hlsInstances,       \* clients of the mounted player that can raise events
    stoppedInstances,   \* clients of the mounted player stopped by a fatal error
    orphanPending,      \* attempts of unmounted players awaiting the import
    orphanInstances,    \* clients of unmounted players
    runs,               \* number of effect runs so far (ids of attempts)
    cycle,              \* methods attempted since the mount or the last user action
    userActions,        \* user actions on the mounted player
    uncaught,           \* an exception escaped to the page level
    lastEvent,          \* the user action or player event handled last
    lastRequest,        \* the request a streaming client issued last
    seekTo,             \* Index state: <<>> is undefined, <<T>> a timestamp
    seekResetTimers,    \* Index: timeouts of handleSeekTo waiting to fire
    seeks,              \* number of handleSeekTo calls so far
    playerCurrentTime,  \* NSPlayer state currentTime
    duration,           \* NSPlayer state
    videoTime,          \* the media element's currentTime
    videoDuration,      \* the media element's duration: <<>> before metadata
    seekPending,        \* the timestamp a seek wrote to the element, until the
                        \* position is reported or moves on
    commentary,         \* CommentaryPanel state: the entries, newest first
    commentaryAdded,    \* entries the mounted panel has added so far
    commentaryTimers,   \* intervals of CommentaryPanel that are set
    highlights,         \* HighlightsSection state: the highlights, newest first
    highlightsTimers,   \* intervals of HighlightsSection that are set
    highlightsElapsed,  \* ticks since the newest highlights interval was set
    customUrl,          \* StreamUrlInput state
    streams,            \* StreamUrlInput state: the decoded catalog
    selectedStream,     \* StreamUrlInput state
    loadingStreams,     \* StreamUrlInput state
    fetchPending,       \* the catalog fetch of the mounted input is in flight
    catalogDocument,    \* the response the mounted input's fetch settled with
    lastToast,          \* the toast raised last
    embedSrc,           \* IframePlayer: the src prop it was rendered with
    embedUrl,           \* IframePlayer: the embed URL of that render
    vpMounted,          \* a VideoPlayer is mounted
    vpSrc,              \* VideoPlayer: the src prop
    vpBrowser,          \* what the browser of VideoPlayer supports, once known
    vpListening,        \* the effect has put its listeners on the media element
    hlsRef,             \* VideoPlayer: hlsRef.current, 0 is null
    vpAlive,            \* streaming clients of VideoPlayer created and not destroyed
    vpCreated,          \* streaming clients of VideoPlayer created so far
    vpHasError,         \* VideoPlayer state hasError
    vpErrorMessage,     \* VideoPlayer state errorMessage
    vpIsLoading,        \* VideoPlayer state isLoading
    vpVideoSrc,         \* the source of VideoPlayer's media element
    vpRecoveryTimers,   \* timeouts of the ERROR handler waiting to fire: the
                        \* client that raised the error of each
    vpLastStartLoad,    \* the startLoad() a recovery timeout made last
    vpLoadPending,      \* VideoPlayer's element was given a source and has not
                        \* raised loadstart for it yet
    isPlaying,          \* NSPlayer: useState(false)
    videoPaused,        \* the paused attribute of NSPlayer's media element
    mediaEvents,        \* play and pause events the element has queued
    toggles,            \* clicks on the play button since the mount
    formatInput,        \* the time a time display is rendered with
    formatted           \* the text formatTime returned for it

vars == <<streamUrl, streamTitle, pageIsLoading, pageCurrentTime,
          connectionMethod, hasError, errorMessage, isLoading,
          videoSrc, canplayListeners, errorListeners, pending, hlsInstances,
          stoppedInstances, orphanPending, orphanInstances, runs, cycle,
          userActions, uncaught, lastEvent, lastRequest,
          seekTo, seekResetTimers, seeks, playerCurrentTime, duration,
          videoTime, videoDuration, seekPending, commentary, commentaryAdded,
          commentaryTimers, highlights, highlightsTimers, highlightsElapsed,
          customUrl, streams, selectedStream, loadingStreams, fetchPending,
          catalogDocument, lastToast, embedSrc, embedUrl, vpMounted, vpSrc,
          vpBrowser, vpListening, hlsRef, vpAlive, vpCreated, vpHasError,
          vpErrorMessage, vpIsLoading, vpVideoSrc, vpRecoveryTimers,
          vpLastStartLoad, vpLoadPending, isPlaying, videoPaused,
          mediaEvents, toggles, formatInput, formatted>>

\* seekTo?: number left out, and the duration (NaN) of an element without
\* metadata.
Undefined == <<>>

NoDuration == <<>>

\* No time display has been rendered.
NoText == <<>>

\* No response has arrived; no toast has been raised.
NoDocument == [type |-> "none"]

NoToast == <<>>

Mounted == streamUrl # EmptyString

\* The input rendered whatever the locator is.
InputRendered_Always == TRUE

\* {!streamUrl ? <StreamUrlInput .../> : ...}: the branch of the page that
\* holds the stream input.
InputRendered == streamUrl = EmptyString

\* The attempt of run r is the current one (not superseded).
Current(r) == Mounted /\ r = runs

\* Streaming clients created and never destroyed.
AliveInstances == Len(hlsInstances) + stoppedInstances + orphanInstances

InitComponents ==
    /\ streamUrl = EmptyString
    /\ streamTitle = EmptyString
    /\ pageIsLoading = FALSE
    /\ pageCurrentTime = 0
    /\ connectionMethod = InitialConnectionMethod
    /\ hasError = FALSE
    /\ errorMessage = NoMessage
    /\ isLoading = TRUE
    /\ videoSrc = EmptyString
    /\ canplayListeners = 0
    /\ errorListeners = 0
    /\ pending = <<>>
    /\ hlsInstances = <<>>
    /\ stoppedInstances = 0
    /\ orphanPending = 0
    /\ orphanInstances = 0
    /\ runs = 0
    /\ cycle = <<>>
    /\ userActions = 0
    /\ uncaught = FALSE
    /\ lastEvent = "init"
    /\ lastRequest = NoRequest
    /\ seekTo = Undefined
    /\ seekResetTimers = 0
    /\ seeks = 0
    /\ playerCurrentTime = 0
    /\ duration = 0
    /\ videoTime = 0
    /\ videoDuration = NoDuration
    /\ seekPending = Undefined
    /\ commentary = <<>>
    /\ commentaryAdded = 0
    /\ commentaryTimers = 0
    /\ highlights = <<>>
    /\ highlightsTimers = 0
    /\ highlightsElapsed = 0
    /\ customUrl = EmptyString
    /\ streams = <<>>
    /\ selectedStream = EmptyString
    /\ loadingStreams = TRUE
    /\ fetchPending = TRUE
    /\ catalogDocument = NoDocument
    /\ lastToast = NoToast
    /\ embedSrc = EmptyString
    /\ embedUrl = EmptyString
    /\ vpMounted = FALSE
    /\ vpSrc = EmptyString
    /\ vpBrowser = [known |-> FALSE]
    /\ vpListening = FALSE
    /\ hlsRef = 0
    /\ vpAlive = {}
    /\ vpCreated = 0
    /\ vpHasError = FALSE
    /\ vpErrorMessage = NoMessage
    /\ vpIsLoading = TRUE
    /\ vpVideoSrc = EmptyString
    /\ vpRecoveryTimers = <<>>
    /\ vpLastStartLoad = [raisedBy |-> 0, appliedTo |-> 0]
    /\ vpLoadPending = FALSE
    /\ isPlaying = FALSE
    /\ videoPaused = TRUE
    /\ mediaEvents = <<>>
    /\ toggles = 0

\* The page before anything is loaded; no time display is rendered.
Init ==
    /\ InitComponents
    /\ formatInput = 0
    /\ formatted = NoText

PageVars == <<streamUrl, streamTitle, pageIsLoading, pageCurrentTime>>

\* The playback position and duration of the media element.
ElementVars == <<videoTime, videoDuration, seekPending>>

PlayerVars == <<connectionMethod, hasError, errorMessage, isLoading, videoSrc,
                canplayListeners, errorListeners, pending, runs, ElementVars>>

OrphanVars == <<orphanPending, orphanInstances>>

RequestVars == <<lastRequest>>

\* The seek request of the page and the time state of the player.
TimeVars == <<seekTo, seekResetTimers, seeks, playerCurrentTime, duration>>

\* CommentaryPanel, mounted together with the player.
PanelVars == <<commentary, commentaryAdded, commentaryTimers>>

\* HighlightsSection, mounted together with the player.
HighlightVars == <<highlights, highlightsTimers, highlightsElapsed>>

\* StreamUrlInput, mounted while no player is.
InputVars == <<customUrl, streams, selectedStream, loadingStreams, fetchPending,
               catalogDocument>>

\* The components of the page around the player, and the toasts.
\* IframePlayer, the alternate embed player.
EmbedVars == <<embedSrc, embedUrl>>

\* VideoPlayer, the player of the earlier page.
VideoPlayerVars == <<vpMounted, vpSrc, vpBrowser, vpListening, hlsRef, vpAlive,
                     vpCreated, vpHasError, vpErrorMessage, vpIsLoading,
                     vpVideoSrc, vpRecoveryTimers, vpLastStartLoad,
                     vpLoadPending>>

\* The components the page does not render.
AlternateVars == <<EmbedVars, VideoPlayerVars>>

\* A time display: the seconds it is given and the text it shows.
FormatVars == <<formatInput, formatted>>

\* Whether NSPlayer plays: its flag, and its media element.
PlaybackVars == <<isPlaying, videoPaused, mediaEvents, toggles>>

ShellVars == <<PanelVars, HighlightVars, InputVars, lastToast, AlternateVars, FormatVars, PlaybackVars>>

\* What the player's attach and retry handlers never touch.
AuxVars == <<RequestVars, TimeVars, ShellVars>>

\* ------------------------------------------------------------- effect
\* The cleanup of the effect: videoRef.current.src = ''.
CleanupSrc == EmptyString

\* The element's source is assigned (the cleanup's '', a locator, or the
\* client's object URL): the element starts over at position 0 with no
\* metadata.
ElementReset ==
    /\ videoTime' = 0
    /\ videoDuration' = NoDuration
    /\ seekPending' = Undefined

\* NSPlayer mounts or unmounts: isPlaying has the initial value of useState,
\* the media element is a new one (paused, nothing queued) or gone.
PlaybackReset ==
    /\ isPlaying' = FALSE
    /\ videoPaused' = TRUE
    /\ mediaEvents' = <<>>
    /\ toggles' = 0

\* video.currentTime = t.  Without metadata the element keeps t as the
\* position to start from; with metadata it seeks to t clamped into
\* [0, duration].
Clamp(t, d) ==
    IF d = NoDuration THEN t
    ELSE IF t < 0 THEN 0
    ELSE IF t > d[1] THEN d[1]
    ELSE t

\* The test of the seek effect without the comparison with undefined:
\* if (seekTo && videoRef.current).
SeekEffectApplies_Truthy(s) == s # Undefined /\ s[1] # 0

\* The test of the seek effect: seekTo !== undefined (videoRef.current is set
\* whenever the player is mounted).
SeekEffectApplies(s) == s # Undefined

\* videoRef.current.currentTime = t on an element of duration d.
SeekWrite(t, d) ==
    /\ videoTime' = Clamp(t, d)
    /\ seekPending' = <<t>>

\* The body of the effect for (src, method) on a media element that holds
\* cp canplay and er error listeners: reset the flags, then loadWithMethod up
\* to its first await.  loadWithNative has no await: it runs to its end.
RunEffect(src, method, cp, er) ==
    /\ runs' = runs + 1
    /\ hasError' = FALSE
    /\ errorMessage' = NoMessage
    /\ isLoading' = TRUE
    /\ IF IsHlsSource(src)
         THEN /\ pending' = Append(pending, [run |-> runs + 1, method |-> method])
              /\ videoSrc' = CleanupSrc
              /\ canplayListeners' = cp
              /\ errorListeners' = er
         ELSE /\ pending' = pending
              /\ videoSrc' = src
              /\ canplayListeners' = cp + 1
              /\ errorListeners' = er + 1

\* setConnectionMethod(id): React drops an update to the same value; a new
\* value re-renders, runs the cleanup and the effect again.
SetConnectionMethod(id) ==
    IF id = connectionMethod
      THEN UNCHANGED PlayerVars
      ELSE /\ runs < MaxRuns
           /\ connectionMethod' = id
           /\ RunEffect(streamUrl, id, canplayListeners, errorListeners)
           /\ ElementReset

\* A step of two instead of one.
nextIndex_Skip(currentIndex) == (currentIndex + 2) % NumMethods

\* (currentIndex + 1) % connectionMethods.length
nextIndex(currentIndex) == (currentIndex + 1) % NumMethods

\* tryNextMethod in the closure of the attempt made with method m.
tryNextMethod(m) ==
    LET currentIndex == findIndex(m)
        next == nextIndex(currentIndex)
    IN  IF next # currentIndex
          THEN SetConnectionMethod(methodAt(next))
          ELSE /\ hasError' = TRUE
               /\ errorMessage' = AllFailedMessage
               /\ isLoading' = FALSE
               /\ UNCHANGED <<connectionMethod, videoSrc, canplayListeners,
                              errorListeners, pending, runs, ElementVars>>

\* ------------------------------------------------------------- timers
\* setInterval adds an interval to the n that are set.
SetInterval(n) == n + 1

\* A cleanup that leaves the interval set.
ClearInterval_Skip(n) == n

\* clearInterval(interval) takes the effect's interval away.
ClearInterval(n) == n - 1

\* ------------------------------------------------------------- commentary panel
\* The last n elements kept: .slice(-n).
Slice0_Last(list, n) ==
    SubSeq(list, IF Len(list) < n THEN 1 ELSE Len(list) - n + 1, Len(list))

\* Array.prototype.slice(0, n) of a list.
Slice0(list, n) == SubSeq(list, 1, IF Len(list) < n THEN Len(list) ELSE n)

\* The new entry put at the end of the list.
addCommentary_AtEnd(prev, newItem) == Slice0(prev \o <<newItem>>, KeepLatest)

\* addCommentary: setCommentary(prev => [newItem, ...prev].slice(0, 50)).
addCommentary(prev, newItem) == Slice0(<<newItem>> \o prev, KeepLatest)

\* An entry is identified by its number among the entries of its panel; its
\* text and type, picked at random from SAMPLE_COMMENTARY, play no part in the
\* list.
\* The panel mounts: its list is empty, its effect adds the first entry and
\* starts the interval.
CommentaryMount ==
    /\ commentary' = addCommentary(<<>>, 1)
    /\ commentaryAdded' = 1
    /\ commentaryTimers' = SetInterval(commentaryTimers)

\* The panel unmounts: clearInterval; the list is gone.
CommentaryUnmount ==
    /\ commentary' = <<>>
    /\ commentaryAdded' = 0
    /\ commentaryTimers' = ClearInterval(commentaryTimers)

\* ------------------------------------------------------------- highlights panel
\* The highlight put at the end of the list.
generateHighlight_AtEnd(prev, timestamp) == prev \o <<[timestamp |-> timestamp]>>

\* generateHighlight: setHighlights(prev => [newHighlight, ...prev]) with the
\* currentTime of the effect's closure as timestamp.  The title, type and
\* description, picked at random from SAMPLE_HIGHLIGHTS, play no part.
generateHighlight(prev, timestamp) == <<[timestamp |-> timestamp]>> \o prev

\* The panel mounts: its list is empty, its effect sets the interval.
HighlightsMount ==
    /\ highlights' = <<>>
    /\ highlightsTimers' = SetInterval(highlightsTimers)
    /\ highlightsElapsed' = 0

\* The panel unmounts: the cleanup clears the interval; the list is gone.
HighlightsUnmount ==
    /\ highlights' = <<>>
    /\ highlightsTimers' = ClearInterval(highlightsTimers)
    /\ highlightsElapsed' = 0

\* The effect depends on [currentTime]: when the prop changes, the cleanup
\* clears the interval and the effect body sets a new one, whose period
\* starts over.
HighlightsEffectRerun ==
    /\ highlights' = highlights
    /\ highlightsTimers' = SetInterval(ClearInterval(highlightsTimers))
    /\ highlightsElapsed' = 0

\* ------------------------------------------------------------- stream input
\* StreamUrlInput mounts (fetching: its effect calls fetchStreams) or
\* unmounts: its state has the initial values of useState.  The toast of a
\* fetch that settles after the input was unmounted is not followed.
InputReset(fetching) ==
    /\ customUrl' = EmptyString
    /\ streams' = <<>>
    /\ selectedStream' = EmptyString
    /\ loadingStreams' = TRUE
    /\ fetchPending' = fetching
    /\ catalogDocument' = NoDocument

\* A JSON value of the fetched document is a record with its kind: the entry
\* null, or an object with the fields it carries (a field it lacks reads as
\* undefined).
NullEntry == [kind |-> "null"]

Object(fields) == [kind |-> "object", fields |-> fields]

\* match.name for an object.
Get(match, name) ==
    IF name \in DOMAIN match.fields THEN match.fields[name] ELSE Undefined

\* Truthiness of a string or undefined.
Truthy(v) == v # Undefined /\ v # EmptyString

\* a || b
Or(a, b) == IF Truthy(a) THEN a ELSE b

\* The URL fields read in the opposite order.
FirstUrl_PubFirst(match) ==
    Or(Or(Get(match, "pub_url"), Get(match, "dai_url")), Get(match, "video_url"))

\* match.video_url || match.dai_url || match.pub_url
FirstUrl(match) ==
    Or(Or(Get(match, "video_url"), Get(match, "dai_url")), Get(match, "pub_url"))

\* `${match.event_category} Match`
CategoryLabel(match) ==
    IF "event_category" \in DOMAIN match.fields
      THEN match.fields["event_category"] \o <<" Match">>
      ELSE <<"undefined", " Match">>

\* The StreamData pushed for the entry at index (0-based).
DecodeEntry(match, index) ==
    [id       |-> <<"match-", index>>,
     title    |-> Or(Or(Get(match, "match_name"), Get(match, "event_name")),
                     CategoryLabel(match)),
     url      |-> FirstUrl(match),
     category |-> Or(Get(match, "event_category"), <<"Sports">>)]

\* data.matches.forEach from position k on: the entries with a URL, in order.
RECURSIVE DecodeFrom(_, _)
DecodeFrom(matches, k) ==
    IF k > Len(matches) THEN <<>>
    ELSE (IF Truthy(FirstUrl(matches[k]))
            THEN <<DecodeEntry(matches[k], k - 1)>> ELSE <<>>)
         \o DecodeFrom(matches, k + 1)

\* The responses of the catalog fetch: the fetch rejects, the body is no
\* JSON, or the body is a JSON value: null, an object without matches, an
\* object whose matches is no array, or an object with an array of matches.
FetchRejected == [type |-> "rejected"]

BodyNotJson == [type |-> "notjson"]

DataNull == [type |-> "value", data |-> [kind |-> "null"]]

DataNoMatches == [type |-> "value", data |-> [kind |-> "object"]]

DataMatchesNoArray ==
    [type |-> "value", data |-> [kind |-> "object", matches |-> [kind |-> "string"]]]

DataMatches(list) ==
    [type |-> "value",
     data |-> [kind |-> "object", matches |-> [kind |-> "array", items |-> list]]]

\* Array.isArray(data.matches) for a JSON value.
HasMatchesArray(doc) ==
    /\ doc.type = "value"
    /\ doc.data.kind = "object"
    /\ "matches" \in DOMAIN doc.data
    /\ doc.data.matches.kind = "array"

\* The try block of fetchStreams throws: fetch or response.json() rejects, or
\* forEach reads a property of an entry that is null.
FetchThrows(doc) ==
    \/ doc.type \in {"rejected", "notjson"}
    \/ /\ HasMatchesArray(doc)
       /\ \E k \in 1..Len(doc.data.matches.items) :
              doc.data.matches.items[k].kind = "null"

\* streamList at setStreams(streamList).
StreamList(doc) ==
    IF HasMatchesArray(doc) THEN DecodeFrom(doc.data.matches.items, 1) ELSE <<>>

\* The entries the model draws the matches from.
EntryShapes ==
    {NullEntry,
     Object([match_name |-> <<"Final">>, event_category |-> <<"Cricket">>]),
     Object([video_url |-> HlsLocator, dai_url |-> NativeLocator,
             match_name |-> <<"Final">>]),
     Object([video_url |-> EmptyString, pub_url |-> NativeLocator,
             event_category |-> <<"Football">>]),
     Object([dai_url |-> HlsLocator, pub_url |-> NativeLocator])}

Documents ==
    {FetchRejected, BodyNotJson, DataNull, DataNoMatches, DataMatchesNoArray}
    \cup {DataMatches(list) :
              list \in UNION {[1..n -> EntryShapes] : n \in 0..MaxEntries}}

\* The toasts of StreamUrlInput.
StreamsLoadedToast(n) == <<"Streams loaded", n>>

WarningToast == <<"Warning">>

NoStreamToast == <<"No stream selected">>

InvalidUrlToast == <<"Invalid URL">>

\* The finally block reached only without an exception.
LoadingStreamsAfterFetch_SuccessOnly(threw) == threw

\* finally { setLoadingStreams(false) }
LoadingStreamsAfterFetch(threw) == FALSE

\* The text typed into the custom URL field.
CustomUrls == {HlsLocator, NativeLocator, <<"x", "m3u8">>}

\* The test of the player used for the custom entry: url.includes('.m3u8').
AcceptsUrl_DotOnly(url) == Includes(url, <<".", "m3u8">>)

\* url.includes('.m3u8') || url.includes('m3u8')
AcceptsUrl(url) == Includes(url, <<".", "m3u8">>) \/ Includes(url, <<"m3u8">>)

\* ------------------------------------------------------------- page
\* Index.handleStreamLoad, reached from StreamUrlInput, which is rendered
\* only while streamUrl is empty: the page state is set, the timeout that
\* clears isLoading is started, NSPlayer mounts with fresh state and a new
\* media element, and its effects run: the attach effect, then the seek
\* effect with the seekTo the page holds at that moment.
HandleStreamLoad(url, title) ==
    /\ InputRendered
    /\ runs < MaxRuns
    /\ pageIsLoading' = TRUE
    /\ streamUrl' = url
    /\ streamTitle' = title
    /\ pageCurrentTime' = pageCurrentTime
    /\ connectionMethod' = InitialConnectionMethod
    /\ RunEffect(url, InitialConnectionMethod, 0, 0)
    /\ cycle' = <<InitialConnectionMethod>>
    /\ userActions' = 0
    /\ lastEvent' = "load"
    /\ UNCHANGED <<hlsInstances, stoppedInstances, OrphanVars, uncaught>>
    /\ UNCHANGED <<RequestVars, seekTo, seekResetTimers, seeks>>
    /\ playerCurrentTime' = 0
    /\ duration' = 0
    /\ videoDuration' = NoDuration
    /\ IF SeekEffectApplies(seekTo)
         THEN SeekWrite(seekTo[1], NoDuration)
         ELSE videoTime' = 0 /\ seekPending' = Undefined
    /\ CommentaryMount
    /\ HighlightsMount
    /\ InputReset(FALSE)
    /\ PlaybackReset
    /\ UNCHANGED <<lastToast, AlternateVars, FormatVars>>

\* The "Change Stream" button: setStreamUrl('') unmounts NSPlayer.  The media
\* element of the player is gone; its state is gone too (the attach state
\* variables keep their last values until the next mount initialises them,
\* the time state is put back to its initial values); its clients, its
\* waiting attempts and the timeouts of the page live on.
ChangeStream ==
    /\ Mounted
    /\ streamUrl' = EmptyString
    /\ pageCurrentTime' = 0
    /\ UNCHANGED <<streamTitle, pageIsLoading>>
    /\ UNCHANGED <<connectionMethod, hasError, errorMessage, isLoading>>
    /\ videoSrc' = EmptyString
    /\ canplayListeners' = 0
    /\ errorListeners' = 0
    /\ orphanPending' = orphanPending + Len(pending)
    /\ orphanInstances' = orphanInstances + Len(hlsInstances) + stoppedInstances
    /\ pending' = <<>>
    /\ hlsInstances' = <<>>
    /\ stoppedInstances' = 0
    /\ cycle' = <<>>
    /\ userActions' = 0
    /\ lastEvent' = "change"
    /\ UNCHANGED <<runs, uncaught>>
    /\ UNCHANGED <<RequestVars, seekTo, seekResetTimers, seeks>>
    /\ playerCurrentTime' = 0
    /\ duration' = 0
    /\ ElementReset
    /\ CommentaryUnmount
    /\ HighlightsUnmount
    /\ InputReset(TRUE)
    /\ PlaybackReset
    /\ UNCHANGED <<lastToast, AlternateVars, FormatVars>>

\* A timeout of handleStreamLoad fires: setIsLoading(false).  Every
\* setIsLoading(true) starts a timeout, so one is waiting whenever the flag is
\* set; a timeout that fires while the flag is clear changes nothing.
LoadTimerFires ==
    /\ pageIsLoading
    /\ pageIsLoading' = FALSE
    /\ UNCHANGED <<streamUrl, streamTitle, pageCurrentTime, PlayerVars,
                   hlsInstances, stoppedInstances, OrphanVars, cycle,
                   userActions, uncaught, lastEvent>>
    /\ UNCHANGED AuxVars

\* ------------------------------------------------------------- user
\* A method button of the settings dialog.
SelectMethod(id) ==
    /\ Mounted
    /\ id # connectionMethod
    /\ SetConnectionMethod(id)
    /\ cycle' = <<id>>
    /\ userActions < MaxUserActions
    /\ userActions' = userActions + 1
    /\ lastEvent' = "select"
    /\ UNCHANGED <<PageVars, hlsInstances, stoppedInstances, OrphanVars, uncaught>>
    /\ UNCHANGED AuxVars

\* The Retry button of the error overlay.
RetryClick ==
    /\ Mounted
    /\ hasError
    /\ hasError' = FALSE
    /\ isLoading' = TRUE
    /\ cycle' = <<>>
    /\ userActions < MaxUserActions
    /\ userActions' = userActions + 1
    /\ lastEvent' = "retry"
    /\ UNCHANGED <<PageVars, connectionMethod, errorMessage, videoSrc,
                   canplayListeners, errorListeners, pending, hlsInstances,
                   stoppedInstances, OrphanVars, runs, uncaught>>
    /\ UNCHANGED <<AuxVars, ElementVars>>

\* The "Try Next Method" button of the error overlay.
NextMethodClick ==
    /\ Mounted
    /\ hasError
    /\ SetConnectionMethod(methodAt((findIndex(connectionMethod) + 1) % NumMethods))
    /\ cycle' = <<connectionMethod'>>
    /\ userActions < MaxUserActions
    /\ userActions' = userActions + 1
    /\ lastEvent' = "next"
    /\ UNCHANGED <<PageVars, hlsInstances, stoppedInstances, OrphanVars, uncaught>>
    /\ UNCHANGED AuxVars

\* ------------------------------------------------------------- streaming client
\* hlsInstances without its i-th element.
Without(i) == [k \in 1..(Len(hlsInstances) - 1) |->
                  IF k < i THEN hlsInstances[k] ELSE hlsInstances[k + 1]]

\* The dynamic import of the oldest waiting attempt settles.  ok: the library
\* loads and Hls.isSupported(): loadWithHLS creates a client, loads the source
\* and attaches it to the media element.  Otherwise the import rejects or the
\* library is unsupported: loadWithHLS throws and the catch of loadWithMethod
\* sets the error state.
ImportSettles(ok) ==
    /\ pending # <<>>
    /\ LET t == Head(pending)
       IN  /\ pending' = Tail(pending)
           /\ IF ok
                THEN /\ hlsInstances' = Append(hlsInstances,
                            [run |-> t.run, method |-> t.method, status |-> "loading"])
                     /\ videoSrc' = BlobUrl
                     /\ ElementReset
                     /\ UNCHANGED <<hasError, errorMessage, isLoading>>
                ELSE /\ hasError' = TRUE
                     /\ errorMessage' = FailedToLoadMessage(t.method)
                     /\ isLoading' = FALSE
                     /\ UNCHANGED <<hlsInstances, videoSrc, ElementVars>>
    /\ lastEvent' = IF ok THEN "attach" ELSE "throw"
    /\ UNCHANGED <<PageVars, connectionMethod, canplayListeners, errorListeners,
                   stoppedInstances, OrphanVars, runs, cycle, userActions, uncaught>>
    /\ UNCHANGED AuxVars

\* The handler without setIsLoading(false).
ManifestParsedSets_KeepsLoading == [isLoading |-> isLoading, hasError |-> FALSE]

\* The MANIFEST_PARSED handler: setIsLoading(false); setHasError(false).
ManifestParsedSets == [isLoading |-> FALSE, hasError |-> FALSE]

HlsManifestParsed(i) ==
    /\ i \in 1..Len(hlsInstances)
    /\ hlsInstances[i].status = "loading"
    /\ hlsInstances' = [hlsInstances EXCEPT ![i].status = "parsed"]
    /\ isLoading' = ManifestParsedSets.isLoading
    /\ hasError' = ManifestParsedSets.hasError
    /\ lastEvent' = "parsed"
    /\ UNCHANGED <<PageVars, connectionMethod, errorMessage, videoSrc,
                   canplayListeners, errorListeners, pending, stoppedInstances,
                   OrphanVars, runs, cycle, userActions, uncaught>>
    /\ UNCHANGED <<AuxVars, ElementVars>>

\* The handler without the test of data.fatal.
ErrorHandlerActs_Always(fatal) == TRUE

\* The ERROR handler: if (data.fatal) tryNextMethod().
ErrorHandlerActs(fatal) == fatal

\* An ERROR event of instance i.  A fatal error stops the client: it raises
\* no further event (nothing restarts it).
HlsError(i, fatal) ==
    /\ i \in 1..Len(hlsInstances)
    /\ hlsInstances' = IF fatal THEN Without(i) ELSE hlsInstances
    /\ stoppedInstances' = IF fatal THEN stoppedInstances + 1 ELSE stoppedInstances
    /\ IF ErrorHandlerActs(fatal)
         THEN tryNextMethod(hlsInstances[i].method)
         ELSE UNCHANGED PlayerVars
    /\ cycle' = IF connectionMethod' # connectionMethod
                  THEN Append(cycle, connectionMethod')
                  ELSE cycle
    /\ lastEvent' = IF fatal THEN "fatal" ELSE "nonfatal"
    /\ UNCHANGED <<PageVars, OrphanVars, userActions, uncaught>>
    /\ UNCHANGED AuxVars

\* The import of an attempt of an unmounted player settles: a client is
\* created and attached to that player's detached element, or the catch calls
\* setters that do nothing.
OrphanImportSettles(ok) ==
    /\ orphanPending > 0
    /\ orphanPending' = orphanPending - 1
    /\ orphanInstances' = IF ok THEN orphanInstances + 1 ELSE orphanInstances
    /\ UNCHANGED <<PageVars, PlayerVars, hlsInstances, stoppedInstances, cycle,
                   userActions, uncaught, lastEvent>>
    /\ UNCHANGED AuxVars

\* A client of an unmounted player raises MANIFEST_PARSED or ERROR: the state
\* setters of an unmounted component do nothing.
OrphanEvent ==
    /\ orphanInstances > 0
    /\ UNCHANGED vars

\* xhrSetup of the client created by the attempt made with method m: the
\* closure's connectionMethod selects the table entry, every header of the
\* entry is set on the request.
xhrSetup(m) == headers(m)

\* Client i issues a request: the manifest while it loads, then segments and
\* playlist refreshes.  shown is the method the badge displays at that moment.
HlsRequest(i) ==
    /\ i \in 1..Len(hlsInstances)
    /\ lastRequest' = [kind    |-> IF hlsInstances[i].status = "loading"
                                     THEN "manifest" ELSE "segment",
                       headers |-> xhrSetup(hlsInstances[i].method),
                       shown   |-> connectionMethod]
    /\ UNCHANGED <<PageVars, PlayerVars, hlsInstances, stoppedInstances,
                   OrphanVars, cycle, userActions, uncaught, lastEvent, TimeVars,
                   ShellVars>>

\* ------------------------------------------------------------- native element
\* The element plays a native source: the locator assigned by loadWithNative.
NativeLoaded == Mounted /\ videoSrc = streamUrl

\* canplay: every once-listener registered by loadWithNative runs and is removed.
NativeCanPlay ==
    /\ NativeLoaded
    /\ isLoading' = IF canplayListeners > 0 THEN FALSE ELSE isLoading
    /\ hasError' = IF canplayListeners > 0 THEN FALSE ELSE hasError
    /\ canplayListeners' = 0
    /\ lastEvent' = "canplay"
    /\ UNCHANGED <<PageVars, connectionMethod, errorMessage, videoSrc,
                   errorListeners, pending, hlsInstances, stoppedInstances,
                   OrphanVars, runs, cycle, userActions, uncaught>>
    /\ UNCHANGED <<AuxVars, ElementVars>>

\* error: every once-listener runs and is removed.  The listener throws; the
\* throw happens in an event callback, outside the try of loadWithMethod, so
\* nothing catches it and no state setter runs.
NativeError ==
    /\ NativeLoaded
    /\ uncaught' = (uncaught \/ errorListeners > 0)
    /\ errorListeners' = 0
    /\ lastEvent' = "nativeError"
    /\ UNCHANGED <<PageVars, connectionMethod, hasError, errorMessage, isLoading,
                   videoSrc, canplayListeners, pending, hlsInstances,
                   stoppedInstances, OrphanVars, runs, cycle, userActions>>
    /\ UNCHANGED <<AuxVars, ElementVars>>

\* ------------------------------------------------------------- specification
Next ==
    \/ \E url \in Locators, title \in Titles : HandleStreamLoad(url, title)
    \/ ChangeStream
    \/ LoadTimerFires
    \/ \E id \in {connectionMethods[k] : k \in 1..NumMethods} : SelectMethod(id)
    \/ RetryClick
    \/ NextMethodClick
    \/ \E ok \in BOOLEAN : ImportSettles(ok)
    \/ \E i \in 1..MaxRuns : HlsManifestParsed(i)
    \/ \E i \in 1..MaxRuns, fatal \in BOOLEAN : HlsError(i, fatal)
    \/ \E ok \in BOOLEAN : OrphanImportSettles(ok)
    \/ OrphanEvent
    \/ NativeCanPlay
    \/ NativeError

Spec == Init /\ [][Next]_vars

\* ------------------------------------------------------------- seek and time
\* Timestamps of seek requests: the seekTo prop is any number.
SeekTimestamps == (0 - 1)..(MaxTime + 1)

\* Index.handleSeekTo(T), called by a click on a highlight (the highlights
\* are rendered with the player): setSeekTo(T) and a timeout of 100 ms.  When
\* the prop changes, the seek effect of the player runs.
HandleSeekTo(T) ==
    /\ Mounted
    /\ seeks < MaxSeeks
    /\ seeks' = seeks + 1
    /\ seekTo' = <<T>>
    /\ seekResetTimers' = seekResetTimers + 1
    /\ IF seekTo' # seekTo /\ SeekEffectApplies(seekTo')
         THEN SeekWrite(seekTo'[1], videoDuration)
         ELSE UNCHANGED <<videoTime, seekPending>>
    /\ lastEvent' = "seek"
    /\ UNCHANGED <<PageVars, connectionMethod, hasError, errorMessage, isLoading,
                   videoSrc, canplayListeners, errorListeners, pending, runs,
                   videoDuration, hlsInstances, stoppedInstances, OrphanVars,
                   cycle, userActions, uncaught, RequestVars, ShellVars,
                   playerCurrentTime, duration>>

\* A timeout of handleSeekTo fires: setSeekTo(undefined).  The seek effect
\* runs when the prop changes and finds nothing to write.
SeekResetFires ==
    /\ seekResetTimers > 0
    /\ seekResetTimers' = seekResetTimers - 1
    /\ seekTo' = Undefined
    /\ IF Mounted /\ seekTo' # seekTo /\ SeekEffectApplies(seekTo')
         THEN SeekWrite(seekTo'[1], videoDuration)
         ELSE UNCHANGED <<videoTime, seekPending>>
    /\ UNCHANGED <<PageVars, connectionMethod, hasError, errorMessage, isLoading,
                   videoSrc, canplayListeners, errorListeners, pending, runs,
                   videoDuration, hlsInstances, stoppedInstances, OrphanVars,
                   cycle, userActions, uncaught, lastEvent, RequestVars,
                   ShellVars, seeks, playerCurrentTime, duration>>

\* setDuration without reading the element.
MetadataDuration_Keep(d) == duration

\* handleLoadedMetadata: setDuration(videoRef.current.duration).
MetadataDuration(d) == d

\* loadedmetadata: the element learns the duration d of its source and moves
\* the position it holds into range.
LoadedMetadata(d) ==
    /\ Mounted
    /\ videoSrc # EmptyString
    /\ videoDuration = NoDuration
    /\ videoDuration' = <<d>>
    /\ videoTime' = Clamp(videoTime, <<d>>)
    /\ duration' = MetadataDuration(d)
    /\ lastEvent' = "metadata"
    /\ UNCHANGED <<PageVars, connectionMethod, hasError, errorMessage, isLoading,
                   videoSrc, canplayListeners, errorListeners, pending, runs,
                   seekPending, hlsInstances, stoppedInstances, OrphanVars,
                   cycle, userActions, uncaught, RequestVars, ShellVars,
                   seekTo, seekResetTimers, seeks, playerCurrentTime>>

\* The value of the previous render instead of the element's position.
CurrentPosition_Stale == playerCurrentTime

\* const current = videoRef.current.currentTime
CurrentPosition == videoTime

\* onTimeUpdate left uncalled.
ReportUpward_Skip(current) == pageCurrentTime

\* onTimeUpdate?.(current) with onTimeUpdate={setCurrentTime}.
ReportUpward(current) == current

\* timeupdate: handleTimeUpdate.
TimeUpdate ==
    /\ Mounted
    /\ playerCurrentTime' = CurrentPosition
    /\ pageCurrentTime' = ReportUpward(CurrentPosition)
    /\ seekPending' = Undefined
    /\ IF pageCurrentTime' # pageCurrentTime
         THEN HighlightsEffectRerun
         ELSE UNCHANGED HighlightVars
    /\ lastEvent' = "timeupdate"
    /\ UNCHANGED <<streamUrl, streamTitle, pageIsLoading, connectionMethod,
                   hasError, errorMessage, isLoading, videoSrc,
                   canplayListeners, errorListeners, pending, runs, videoTime,
                   videoDuration, hlsInstances, stoppedInstances, OrphanVars,
                   cycle, userActions, uncaught, RequestVars, PanelVars,
                   InputVars, lastToast, AlternateVars, FormatVars, PlaybackVars,
                   seekTo, seekResetTimers, seeks, duration>>

\* Playback moves the position of the element on by one.
PlaybackAdvances ==
    /\ Mounted
    /\ videoDuration # NoDuration
    /\ videoTime < videoDuration[1]
    /\ videoTime' = videoTime + 1
    /\ seekPending' = Undefined
    /\ UNCHANGED <<PageVars, connectionMethod, hasError, errorMessage, isLoading,
                   videoSrc, canplayListeners, errorListeners, pending, runs,
                   videoDuration, hlsInstances, stoppedInstances, OrphanVars,
                   cycle, userActions, uncaught, lastEvent, AuxVars>>

\* The time state of the page and the player.
NextSeek ==
    \/ \E url \in Locators, title \in Titles : HandleStreamLoad(url, title)
    \/ ChangeStream
    \/ \E ok \in BOOLEAN : ImportSettles(ok)
    \/ \E T \in SeekTimestamps : HandleSeekTo(T)
    \/ SeekResetFires
    \/ \E d \in 1..MaxTime : LoadedMetadata(d)
    \/ TimeUpdate
    \/ PlaybackAdvances

SpecSeek == Init /\ [][NextSeek]_vars

\* ------------------------------------------------------------- commentary timer
\* The interval of the mounted panel fires: addCommentary.
CommentaryTimerFires ==
    /\ Mounted
    /\ commentaryTimers > 0
    /\ commentaryAdded < MaxCommentary
    /\ commentaryAdded' = commentaryAdded + 1
    /\ commentary' = addCommentary(commentary, commentaryAdded + 1)
    /\ UNCHANGED <<PageVars, PlayerVars, hlsInstances, stoppedInstances,
                   OrphanVars, cycle, userActions, uncaught, lastEvent,
                   RequestVars, TimeVars, InputVars, lastToast,
                   commentaryTimers, HighlightVars, AlternateVars, FormatVars, PlaybackVars>>

\* The commentary panel over the mounts of the page.
NextCommentary ==
    \/ \E url \in Locators, title \in Titles : HandleStreamLoad(url, title)
    \/ ChangeStream
    \/ CommentaryTimerFires

SpecCommentary == Init /\ [][NextCommentary]_vars

\* ------------------------------------------------------------- highlights timer
\* What the highlights panel's own steps leave alone.
OutsideHighlights ==
    <<PageVars, PlayerVars, hlsInstances, stoppedInstances, OrphanVars, cycle,
      userActions, uncaught, RequestVars, TimeVars, PanelVars, InputVars,
      lastToast, AlternateVars, FormatVars, PlaybackVars>>

\* The clock moves on by one tick of the period the highlights interval
\* waits for.
Tick ==
    /\ highlightsTimers > 0
    /\ highlightsElapsed < HighlightPeriod
    /\ highlightsElapsed' = highlightsElapsed + 1
    /\ UNCHANGED <<OutsideHighlights, highlights, highlightsTimers, lastEvent>>

\* The highlights interval fires once its period has passed; the next period
\* starts.  random: Math.random() > 0.3, the callback generates a highlight
\* with the currentTime the effect that set the interval was run with, which
\* is the page's currentTime, since every change of it runs the effect again.
HighlightsTimerFires(random) ==
    /\ Mounted
    /\ highlightsTimers > 0
    /\ highlightsElapsed = HighlightPeriod
    /\ highlightsElapsed' = 0
    /\ IF random
         THEN /\ Len(highlights) < MaxHighlights
              /\ highlights' = generateHighlight(highlights, pageCurrentTime)
         ELSE highlights' = highlights
    /\ lastEvent' = "highlightTimer"
    /\ UNCHANGED <<OutsideHighlights, highlightsTimers>>

\* onClick={() => onSeekTo(highlight.timestamp)}
ClickTimestamp(highlight) == highlight.timestamp

\* A click on the card of highlight k: onSeekTo is the page's handleSeekTo.
HighlightClick(k) ==
    /\ k \in 1..Len(highlights)
    /\ HandleSeekTo(ClickTimestamp(highlights[k]))

\* The highlights panel over playback and the mounts of the page.
NextHighlights ==
    \/ \E title \in Titles : HandleStreamLoad(NativeLocator, title)
    \/ ChangeStream
    \/ \E d \in 1..MaxTime : LoadedMetadata(d)
    \/ PlaybackAdvances
    \/ TimeUpdate
    \/ Tick
    \/ \E random \in BOOLEAN : HighlightsTimerFires(random)
    \/ \E k \in 1..MaxHighlights : HighlightClick(k)
    \/ SeekResetFires

SpecHighlights == Init /\ [][NextHighlights]_vars

\* The timers of both panels over the mounts of the page.
NextPanels ==
    \/ \E title \in Titles : HandleStreamLoad(NativeLocator, title)
    \/ ChangeStream
    \/ CommentaryTimerFires
    \/ Tick
    \/ \E random \in BOOLEAN : HighlightsTimerFires(random)
    \/ \E d \in 1..MaxTime : LoadedMetadata(d)
    \/ PlaybackAdvances
    \/ TimeUpdate

SpecPanels == Init /\ [][NextPanels]_vars

\* ------------------------------------------------------------- embed player
\* The characters that end the video id in the pattern: [^&\n?#].
IdDelimiters == {"&", "\n", "?", "#"}

\* The longest run of tokens of s from position k on that holds no delimiter.
RECURSIVE IdRun(_, _)
IdRun(s, k) ==
    IF k > Len(s) \/ s[k] \in IdDelimiters THEN <<>>
    ELSE <<s[k]>> \o IdRun(s, k + 1)

\* url.match(/(?:youtube\.com\/watch\?v=|youtu\.be\/)([^&\n?#]+)/): the
\* capture of the leftmost match, <<>> for null.  A match starts where one of
\* the two prefixes stands and at least one id character follows it.
VideoIdMatch(url) ==
    LET alts == {<<"youtube.com", "/", "watch", "?", "v=">>, <<"youtu.be", "/">>}
        starts == {i \in 1..Len(url) :
                     \E a \in alts :
                        /\ i + Len(a) - 1 <= Len(url)
                        /\ SubSeq(url, i, i + Len(a) - 1) = a
                        /\ IdRun(url, i + Len(a)) # <<>>}
    IN  IF starts = {} THEN <<>>
        ELSE LET i == CHOOSE x \in starts : \A y \in starts : x <= y
                 a == CHOOSE b \in alts :
                         /\ i + Len(b) - 1 <= Len(url)
                         /\ SubSeq(url, i, i + Len(b) - 1) = b
                         /\ IdRun(url, i + Len(b)) # <<>>
             IN  IdRun(url, i + Len(a))

\* encodeURIComponent of one token: letters, digits and - _ . ! ~ * ' ( )
\* stay, every other character becomes its percent escape.
EncodeToken(t) ==
    CASE t = "https://" -> "https%3A%2F%2F"
      [] t = "http://"  -> "http%3A%2F%2F"
      [] t = "/"        -> "%2F"
      [] t = "?"        -> "%3F"
      [] t = "&"        -> "%26"
      [] t = "#"        -> "%23"
      [] t = "v="       -> "v%3D"
      [] t = "t="       -> "t%3D"
      [] t = "u="       -> "u%3D"
      [] t = "%2F"      -> "%252F"
      [] OTHER          -> t

\* encodeURIComponent(url)
encodeURIComponent(url) == [k \in 1..Len(url) |-> EncodeToken(url[k])]

\* The percent-decoding the demo player applies to its src parameter.
DecodeToken(t) ==
    CASE t = "https%3A%2F%2F" -> "https://"
      [] t = "http%3A%2F%2F"  -> "http://"
      [] t = "%2F"            -> "/"
      [] t = "%3F"            -> "?"
      [] t = "%26"            -> "&"
      [] t = "%23"            -> "#"
      [] t = "v%3D"           -> "v="
      [] t = "t%3D"           -> "t="
      [] t = "u%3D"           -> "u="
      [] t = "%252F"          -> "%2F"
      [] OTHER                -> t

decodeURIComponent(s) == [k \in 1..Len(s) |-> DecodeToken(s[k])]

\* `https://www.youtube.com/embed/${videoId[1]}?autoplay=1&controls=1`
YouTubeEmbed(id) ==
    <<"https://", "www.", "youtube.com", "/", "embed", "/">> \o id \o
    <<"?", "autoplay=1", "&", "controls=1">>

\* `https://video-dev.github.io/hls.js/stable/demo/?src=${encodedUrl}`
DemoPlayer ==
    <<"https://", "video-dev.github.io", "/", "hls.js", "/", "stable", "/",
      "demo", "/", "?", "src=">>

getEmbedUrl(url) ==
    IF /\ Includes(url, <<"youtube.com">>) \/ Includes(url, <<"youtu.be">>)
       /\ VideoIdMatch(url) # <<>>
      THEN YouTubeEmbed(VideoIdMatch(url))
      ELSE DemoPlayer \o encodeURIComponent(url)

\* The URLs the embed player is rendered with: a scheme and host prefix, a
\* host, a path and a query or fragment.
EmbedPrefixes == {<<"https://">>, <<"https://", "www.">>, <<"https://", "m.">>,
                  <<"http://">>}

EmbedHosts == {"youtube.com", "youtu.be", "example.com"}

EmbedPaths == {<<"/", "watch">>, <<"/", "abc">>, <<"/", "live", "/", "abc">>,
               <<"/", "embed", "/", "abc">>}

EmbedQueries == {<<>>,
                 <<"?", "v=", "abc">>,
                 <<"?", "v=", "abc", "&", "t=", "1">>,
                 <<"?", "t=", "1", "&", "v=", "abc">>,
                 <<"?", "t=", "1">>,
                 <<"#", "t=", "1">>,
                 <<"?", "u=", "youtu.be", "/", "abc">>,
                 <<"?", "u=", "a", "%2F", "b">>}

EmbedInputs ==
    {p \o <<h>> \o path \o q :
        p \in EmbedPrefixes, h \in EmbedHosts, path \in EmbedPaths,
        q \in EmbedQueries}

\* What a render of the embed player leaves alone.
OutsideEmbed ==
    <<PageVars, PlayerVars, hlsInstances, stoppedInstances, OrphanVars, cycle,
      userActions, uncaught, lastEvent, RequestVars, TimeVars, PanelVars,
      HighlightVars, InputVars, lastToast, VideoPlayerVars, PlaybackVars,
      FormatVars>>

\* IframePlayer is rendered with a new src: const embedUrl = getEmbedUrl(src).
IframeRender(src) ==
    /\ src # embedSrc
    /\ embedSrc' = src
    /\ embedUrl' = getEmbedUrl(src)
    /\ UNCHANGED OutsideEmbed

NextEmbed == \E src \in EmbedInputs : IframeRender(src)

SpecEmbed == Init /\ [][NextEmbed]_vars

\* ------------------------------------------------------------- video player
\* The browsers VideoPlayer runs in: hlsJs is Hls.isSupported(), native is
\* video.canPlayType('application/vnd.apple.mpegurl') being non-empty.
Browsers == {[known |-> TRUE, hlsJs |-> h, native |-> n] : h, n \in BOOLEAN}

\* The messages VideoPlayer shows.
NetworkRecoveryMessage == <<"Network error, attempting recovery...">>

MediaRecoveryMessage == <<"Media error, attempting recovery...">>

AlternativeMessage == <<"Trying alternative playback methods...">>

VideoFailedMessage == <<"Failed to load video stream">>

\* `https://cors-anywhere.herokuapp.com/${src}`
CorsProxy(src) == <<"https://cors-anywhere.herokuapp.com/">> \o src

\* The sources VideoPlayer is given.
VideoPlayerSources == Locators \cup {EmptyString}

\* The kinds of a fatal error of a streaming client.
ErrorTypes == {"NETWORK_ERROR", "MEDIA_ERROR", "OTHER_ERROR"}

\* A cleanup that leaves the client alive.
DestroyRef_Skip(alive, ref) == alive

\* hlsRef.current.destroy(): the client the ref holds is destroyed.
DestroyRef(alive, ref) == {c \in alive : c.id # ref}

\* The cleanup of the [src] effect: if (hlsRef.current) { destroy; null }.
\* A destroyed client takes its object URL off the media element.
VideoPlayerCleanup ==
    IF hlsRef # 0
      THEN [ref      |-> 0,
            alive    |-> DestroyRef(vpAlive, hlsRef),
            videoSrc |-> IF vpVideoSrc = BlobUrl THEN EmptyString ELSE vpVideoSrc]
      ELSE [ref |-> hlsRef, alive |-> vpAlive, videoSrc |-> vpVideoSrc]

\* The body of the [src] effect after the cleanup result c, in browser b.
\* An empty src returns at once.  Otherwise the flags are reset, the
\* listeners are put on the element and loadStream, which has no await, runs
\* to its end: a client is created and kept in hlsRef, or the native element
\* or the fallback gets the source.
VideoPlayerEffect(src, b, c) ==
    IF src = EmptyString
      THEN /\ hlsRef' = c.ref
           /\ vpAlive' = c.alive
           /\ vpVideoSrc' = c.videoSrc
           /\ vpLoadPending' = (c.videoSrc # EmptyString /\ vpLoadPending)
           /\ UNCHANGED <<vpCreated, vpHasError, vpErrorMessage, vpIsLoading,
                          vpListening>>
      ELSE /\ vpHasError' = FALSE
           /\ vpListening' = TRUE
           /\ vpLoadPending' = TRUE
           /\ IF b.hlsJs
                THEN /\ vpCreated' = vpCreated + 1
                     /\ hlsRef' = vpCreated + 1
                     /\ vpAlive' = c.alive \cup {[id |-> vpCreated + 1, src |-> src]}
                     /\ vpVideoSrc' = BlobUrl
                     /\ vpErrorMessage' = NoMessage
                     /\ vpIsLoading' = TRUE
                ELSE /\ vpCreated' = vpCreated
                     /\ hlsRef' = c.ref
                     /\ vpAlive' = c.alive
                     /\ vpVideoSrc' = src
                     /\ vpErrorMessage' = IF b.native THEN NoMessage
                                          ELSE AlternativeMessage
                     /\ vpIsLoading' = FALSE

\* What the steps of VideoPlayer leave alone.
OutsideVideoPlayer ==
    <<PageVars, PlayerVars, hlsInstances, stoppedInstances, OrphanVars, cycle,
      userActions, uncaught, lastEvent, RequestVars, TimeVars, PanelVars,
      HighlightVars, InputVars, lastToast, EmbedVars, PlaybackVars,
      FormatVars>>

\* VideoPlayer mounts with src in browser b: fresh state, the effect runs.
VideoPlayerMount(src, b) ==
    /\ ~vpMounted
    /\ vpCreated < MaxClients
    /\ b = vpBrowser \/ ~vpBrowser.known
    /\ vpMounted' = TRUE
    /\ vpSrc' = src
    /\ vpBrowser' = b
    /\ IF src = EmptyString
         THEN /\ vpHasError' = FALSE
              /\ vpErrorMessage' = NoMessage
              /\ vpIsLoading' = TRUE
              /\ vpListening' = FALSE
              /\ vpLoadPending' = FALSE
              /\ UNCHANGED <<hlsRef, vpAlive, vpVideoSrc, vpCreated>>
         ELSE VideoPlayerEffect(src, b, [ref |-> hlsRef, alive |-> vpAlive,
                                         videoSrc |-> EmptyString])
    /\ UNCHANGED <<OutsideVideoPlayer, vpLastStartLoad, vpRecoveryTimers>>

\* The src prop of the mounted VideoPlayer changes: cleanup, then the effect.
VideoPlayerSetSrc(src) ==
    /\ vpMounted
    /\ src # vpSrc
    /\ vpCreated < MaxClients
    /\ vpSrc' = src
    /\ VideoPlayerEffect(src, vpBrowser, VideoPlayerCleanup)
    /\ UNCHANGED <<OutsideVideoPlayer, vpLastStartLoad, vpMounted, vpBrowser, vpRecoveryTimers>>

\* VideoPlayer unmounts: the cleanup runs; its state and element are gone.
VideoPlayerUnmount ==
    /\ vpMounted
    /\ vpMounted' = FALSE
    /\ vpSrc' = EmptyString
    /\ hlsRef' = VideoPlayerCleanup.ref
    /\ vpAlive' = VideoPlayerCleanup.alive
    /\ vpVideoSrc' = EmptyString
    /\ vpHasError' = FALSE
    /\ vpErrorMessage' = NoMessage
    /\ vpIsLoading' = TRUE
    /\ vpListening' = FALSE
    /\ vpLoadPending' = FALSE
    /\ UNCHANGED <<OutsideVideoPlayer, vpLastStartLoad, vpBrowser, vpCreated,
                   vpRecoveryTimers>>

\* MANIFEST_PARSED of client c: setIsLoading(false); setHasError(false).
VideoPlayerManifestParsed(c) ==
    /\ vpMounted
    /\ c \in vpAlive
    /\ vpIsLoading' = FALSE
    /\ vpHasError' = FALSE
    /\ UNCHANGED <<OutsideVideoPlayer, vpLastStartLoad, vpMounted, vpSrc, vpBrowser, vpListening,
                   hlsRef, vpAlive, vpCreated, vpErrorMessage, vpVideoSrc,
                   vpRecoveryTimers, vpLoadPending>>

\* A fatal ERROR of client c.  NETWORK_ERROR: a message and a timeout that
\* will restart loading; MEDIA_ERROR: a message and recoverMediaError();
\* any other type: the error state, then tryFallbackMethods, which gives the
\* element the source of the client's effect, through the proxy if the
\* browser plays the format itself.
VideoPlayerFatalError(c, type) ==
    /\ vpMounted
    /\ c \in vpAlive
    /\ CASE type = "NETWORK_ERROR" ->
              /\ Len(vpRecoveryTimers) < MaxRecoveries
              /\ vpErrorMessage' = NetworkRecoveryMessage
              /\ vpRecoveryTimers' = Append(vpRecoveryTimers, c.id)
              /\ UNCHANGED <<vpHasError, vpIsLoading, vpVideoSrc, vpLoadPending>>
         [] type = "MEDIA_ERROR" ->
              /\ vpErrorMessage' = MediaRecoveryMessage
              /\ UNCHANGED <<vpHasError, vpIsLoading, vpVideoSrc, vpRecoveryTimers,
                             vpLoadPending>>
         [] OTHER ->
              /\ vpHasError' = TRUE
              /\ vpErrorMessage' = AlternativeMessage
              /\ vpIsLoading' = FALSE
              /\ vpVideoSrc' = IF vpBrowser.native THEN CorsProxy(c.src) ELSE c.src
              /\ vpLoadPending' = TRUE
              /\ UNCHANGED vpRecoveryTimers
    /\ UNCHANGED <<OutsideVideoPlayer, vpLastStartLoad, vpMounted, vpSrc, vpBrowser, vpListening,
                   hlsRef, vpAlive, vpCreated>>

\* The client the timeout of the error raised by client id restarts:
\* if (hlsRef.current) hlsRef.current.startLoad(), with the ref read when the
\* timeout fires.
StartLoadTarget(id) ==
    IF hlsRef # 0 THEN [raisedBy |-> id, appliedTo |-> hlsRef]
    ELSE vpLastStartLoad

\* A recovery timeout fires.
VideoPlayerRecoveryFires ==
    /\ vpRecoveryTimers # <<>>
    /\ vpRecoveryTimers' = Tail(vpRecoveryTimers)
    /\ vpLastStartLoad' = StartLoadTarget(Head(vpRecoveryTimers))
    /\ UNCHANGED <<OutsideVideoPlayer, vpMounted, vpSrc, vpBrowser, vpListening,
                   hlsRef, vpAlive, vpCreated, vpHasError, vpErrorMessage,
                   vpIsLoading, vpVideoSrc, vpLoadPending>>

\* An event of the media element, which has a source; the listeners the
\* effect added run.  loadstart comes once for each source the element is
\* given, canplay or error after it.
VideoPlayerElementEvent(event) ==
    /\ vpMounted
    /\ vpListening
    /\ vpVideoSrc # EmptyString
    /\ CASE event = "loadstart" ->
              /\ vpLoadPending
              /\ vpLoadPending' = FALSE
              /\ vpIsLoading' = TRUE
              /\ UNCHANGED <<vpHasError, vpErrorMessage>>
         [] event = "canplay" ->
              /\ ~vpLoadPending
              /\ vpIsLoading' = FALSE
              /\ vpHasError' = FALSE
              /\ UNCHANGED <<vpErrorMessage, vpLoadPending>>
         [] OTHER ->
              /\ ~vpLoadPending
              /\ vpHasError' = TRUE
              /\ vpErrorMessage' = VideoFailedMessage
              /\ vpIsLoading' = FALSE
              /\ UNCHANGED vpLoadPending
    /\ UNCHANGED <<OutsideVideoPlayer, vpLastStartLoad, vpMounted, vpSrc, vpBrowser, vpListening,
                   hlsRef, vpAlive, vpCreated, vpVideoSrc, vpRecoveryTimers>>

\* The clients a VideoPlayer can have created.
Clients == {[id |-> i, src |-> s] : i \in 1..MaxClients, s \in Locators}

\* VideoPlayer over its mounts and the changes of its source.
NextVideoPlayer ==
    \/ \E src \in VideoPlayerSources, b \in Browsers : VideoPlayerMount(src, b)
    \/ \E src \in VideoPlayerSources : VideoPlayerSetSrc(src)
    \/ VideoPlayerUnmount
    \/ \E c \in Clients : VideoPlayerManifestParsed(c)
    \/ \E c \in Clients, type \in ErrorTypes : VideoPlayerFatalError(c, type)
    \/ VideoPlayerRecoveryFires
    \/ \E event \in {"loadstart", "canplay", "error"} : VideoPlayerElementEvent(event)

SpecVideoPlayer == Init /\ [][NextVideoPlayer]_vars

\* ------------------------------------------------------------- play button
\* What the play button and the play and pause events leave alone.
OutsidePlayback ==
    <<PageVars, PlayerVars, hlsInstances, stoppedInstances, OrphanVars, cycle,
      userActions, uncaught, lastEvent, RequestVars, TimeVars, PanelVars,
      HighlightVars, InputVars, lastToast, AlternateVars, FormatVars>>

\* video.pause(): an element that is not paused becomes paused and queues
\* the pause event; a paused element does nothing.
Pause ==
    /\ videoPaused' = TRUE
    /\ mediaEvents' = IF videoPaused THEN mediaEvents
                      ELSE Append(mediaEvents, "pause")

\* video.play().catch(log): an element that accepts the request and is
\* paused stops being paused and queues the play event; an element that
\* rejects it (it may not play, or its source is not supported) returns a
\* rejected promise and changes nothing.  The catch logs the error.
Play(accepted) ==
    IF accepted
      THEN /\ videoPaused' = FALSE
           /\ mediaEvents' = IF videoPaused THEN Append(mediaEvents, "play")
                             ELSE mediaEvents
      ELSE UNCHANGED <<videoPaused, mediaEvents>>

\* togglePlay: a click on the play button.
TogglePlay(accepted) ==
    /\ Mounted
    /\ toggles < MaxToggles
    /\ toggles' = toggles + 1
    /\ IF isPlaying THEN Pause ELSE Play(accepted)
    /\ isPlaying' = ~isPlaying
    /\ UNCHANGED OutsidePlayback

\* The element delivers the event it queued first: onPlay or onPause.
MediaEventDelivered ==
    /\ Mounted
    /\ mediaEvents # <<>>
    /\ mediaEvents' = Tail(mediaEvents)
    /\ isPlaying' = (Head(mediaEvents) = "play")
    /\ UNCHANGED <<OutsidePlayback, videoPaused, toggles>>

\* The play button over the mounts of the page.
NextPlayback ==
    \/ \E url \in Locators, title \in Titles : HandleStreamLoad(url, title)
    \/ ChangeStream
    \/ \E accepted \in BOOLEAN : TogglePlay(accepted)
    \/ MediaEventDelivered

SpecPlayback == Init /\ [][NextPlayback]_vars

\* ------------------------------------------------------------- time display
\* The decimal digits.
DigitChars == <<"0", "1", "2", "3", "4", "5", "6", "7", "8", "9">>

\* Number.prototype.toString() of a non-negative integer: its decimal digits
\* without leading zeros.
RECURSIVE ToString(_)
ToString(n) ==
    IF n < 10 THEN <<DigitChars[n + 1]>>
    ELSE ToString(n \div 10) \o <<DigitChars[(n % 10) + 1]>>

\* No padding at all.
padStart_None(text, targetLength, padChar) == text

\* String.prototype.padStart(targetLength, padChar) with a pad string of one
\* character.
RECURSIVE padStart(_, _, _)
padStart(text, targetLength, padChar) ==
    IF Len(text) >= targetLength THEN text
    ELSE padStart(<<padChar>> \o text, targetLength, padChar)

\* Math.floor(x / y) of non-negative integers.
FloorDiv(x, y) == x \div y

\* formatTime: `${minutes}:${seconds.toString().padStart(2, '0')}` with
\* minutes = Math.floor(time / 60) and seconds = Math.floor(time % 60).
formatTime(time) ==
    LET minutes == FloorDiv(time, 60)
        seconds == time % 60
    IN  ToString(minutes) \o <<":">> \o padStart(ToString(seconds), 2, "0")

\* The whole numbers of seconds a time display is given.
FormatInputs == 0..MaxSeconds

\* A time display is rendered: formatTime(currentTime).
FormatTimeRender ==
    /\ formatted = NoText
    /\ formatted' = formatTime(formatInput)
    /\ UNCHANGED <<PageVars, PlayerVars, hlsInstances, stoppedInstances,
                   OrphanVars, cycle, userActions, uncaught, lastEvent,
                   RequestVars, TimeVars, PanelVars, HighlightVars, InputVars,
                   lastToast, AlternateVars, PlaybackVars, formatInput>>

\* Any whole number of seconds may be displayed.
InitFormat ==
    /\ InitComponents
    /\ formatInput \in FormatInputs
    /\ formatted = NoText

NextFormat == FormatTimeRender

SpecFormat == InitFormat /\ [][NextFormat]_vars

\* ------------------------------------------------------------- stream input actions
\* What the handlers of StreamUrlInput that load nothing leave alone.
OutsideInput ==
    <<PageVars, PlayerVars, hlsInstances, stoppedInstances, OrphanVars, cycle,
      userActions, uncaught, RequestVars, TimeVars, PanelVars, HighlightVars,
      AlternateVars, FormatVars, PlaybackVars>>

\* The catalog fetch of the mounted input settles with doc: fetchStreams from
\* its first await to its end.
FetchSettles(doc) ==
    /\ fetchPending
    /\ fetchPending' = FALSE
    /\ catalogDocument' = doc
    /\ IF FetchThrows(doc)
         THEN /\ streams' = streams
              /\ lastToast' = WarningToast
         ELSE /\ streams' = StreamList(doc)
              /\ lastToast' = StreamsLoadedToast(Len(StreamList(doc)))
    /\ loadingStreams' = LoadingStreamsAfterFetch(FetchThrows(doc))
    /\ lastEvent' = "fetched"
    /\ UNCHANGED <<OutsideInput, customUrl, selectedStream>>

\* Typing into the custom URL field (disabled while the page is loading).
SetCustomUrl(u) ==
    /\ InputRendered
    /\ ~pageIsLoading
    /\ u # customUrl
    /\ customUrl' = u
    /\ UNCHANGED <<OutsideInput, streams, selectedStream, loadingStreams,
                   fetchPending, catalogDocument, lastToast, lastEvent>>

\* Picking entry k of the dropdown, rendered once the catalog has entries.
SelectStream(k) ==
    /\ InputRendered
    /\ ~loadingStreams
    /\ k \in 1..Len(streams)
    /\ selectedStream # streams[k].url
    /\ selectedStream' = streams[k].url
    /\ UNCHANGED <<OutsideInput, streams, customUrl, loadingStreams,
                   fetchPending, catalogDocument, lastToast, lastEvent>>

\* The custom URL field taken before the selection.
LoadStreamUrl_CustomFirst == Or(customUrl, selectedStream)

\* const url = selectedStream || customUrl
LoadStreamUrl == Or(selectedStream, customUrl)

\* The Load Stream button (disabled while the page is loading and while there
\* is neither a selected stream nor a custom URL): handleLoadStream.
HandleLoadStream ==
    /\ InputRendered
    /\ ~pageIsLoading
    /\ Truthy(selectedStream) \/ Truthy(customUrl)
    /\ LET url == LoadStreamUrl
       IN  IF ~Truthy(url)
             THEN /\ lastToast' = NoStreamToast
                  /\ lastEvent' = "rejected"
                  /\ UNCHANGED <<OutsideInput, InputVars>>
           ELSE IF ~AcceptsUrl(url)
             THEN /\ lastToast' = InvalidUrlToast
                  /\ lastEvent' = "rejected"
                  /\ UNCHANGED <<OutsideInput, InputVars>>
           ELSE HandleStreamLoad(url, EmptyString)

\* A click on the card of entry k: handleQuickLoad(stream.url, stream.title).
HandleQuickLoad(k) ==
    /\ ~loadingStreams
    /\ k \in 1..Len(streams)
    /\ HandleStreamLoad(streams[k].url, streams[k].title)

\* The stream input over the mounts of the page.
NextCatalog ==
    \/ \E doc \in Documents : FetchSettles(doc)
    \/ \E u \in CustomUrls \cup {EmptyString} : SetCustomUrl(u)
    \/ \E k \in 1..MaxEntries : SelectStream(k)
    \/ HandleLoadStream
    \/ \E k \in 1..MaxEntries : HandleQuickLoad(k)
    \/ ChangeStream
    \/ LoadTimerFires

SpecCatalog == Init /\ [][NextCatalog]_vars

\* The requests of the streaming clients of one manifest locator.
NextRequests ==
    \/ \E title \in Titles : HandleStreamLoad(HlsLocator, title)
    \/ \E id \in {connectionMethods[k] : k \in 1..NumMethods} : SelectMethod(id)
    \/ \E ok \in BOOLEAN : ImportSettles(ok)
    \/ \E i \in 1..MaxRuns : HlsManifestParsed(i)
    \/ \E i \in 1..MaxRuns, fatal \in BOOLEAN : HlsError(i, fatal)
    \/ \E i \in 1..MaxRuns : HlsRequest(i)

SpecRequests == Init /\ [][NextRequests]_vars

\* ------------------------------------------------------------- controller states
\* The exhausted terminal state.
AllMethodsExhausted ==
    /\ hasError = TRUE
    /\ isLoading = FALSE
    /\ errorMessage = AllFailedMessage

Playing == isLoading = FALSE /\ hasError = FALSE

\* The current attach attempt is under way: it waits for the import, or its
\* client is loading, or the native element loads the locator.
AttemptInFlight ==
    \/ \E k \in 1..Len(pending) : pending[k].run = runs
    \/ \E i \in 1..Len(hlsInstances) :
          hlsInstances[i].run = runs /\ hlsInstances[i].status = "loading"
    \/ NativeLoaded /\ canplayListeners > 0

\* Since the mount, with no user action, exactly k attach attempts have ended
\* in a fatal error of their client.
FailedSinceMount(k) ==
    /\ Mounted
    /\ IsHlsSource(streamUrl)
    /\ userActions = 0
    /\ stoppedInstances = k

\* ------------------------------------------------------------- claims
\* C1: after N consecutive fatal failures from a fixed locator every
\* connection method has been attempted exactly once, in table order, and the
\* controller is in the exhausted terminal state with no further attempt.
C1_ExhaustedAfterNFailures ==
    FailedSinceMount(NumMethods) =>
        /\ AllMethodsExhausted
        /\ cycle = connectionMethods
        /\ pending = <<>>
        /\ hlsInstances = <<>>

\* C2: with 4 presets, when the attempts with methods 0, 1 and 2 end in a
\* fatal error and the attempt with method 3 raises manifest-parsed, the
\* controller is Playing with method index 3 and nothing is left to run.
C2_Scenario ==
    /\ FailedSinceMount(3)
    /\ Len(hlsInstances) = 1
    /\ hlsInstances[1].status = "parsed"

C2_EndToEnd ==
    C2_Scenario =>
        /\ Playing
        /\ connectionMethod = methodAt(3)
        /\ hlsInstances[1].method = methodAt(3)
        /\ hlsInstances[1].run = runs
        /\ cycle = connectionMethods
        /\ pending = <<>>

C2_Witness == C2_Scenario /\ Playing /\ findIndex(connectionMethod) = 3

\* C3: automatic retrying terminates: the controller starts at most N attach
\* attempts on its own (since the mount or the last user action).
C3_AutomaticRetryBounded == Len(cycle) <= NumMethods

\* C4: right after a new locator is loaded the error flags and the loading
\* flag have their initial values, and right after the locator is given up or
\* replaced no streaming client of the previous locator is alive.
C4_LocatorChangeResetsAndDiscards ==
    /\ lastEvent = "load" =>
          /\ hasError = FALSE
          /\ errorMessage = NoMessage
          /\ isLoading = TRUE
    /\ lastEvent \in {"change", "load"} => AliveInstances = 0

\* C5: a manifest-parsed or fatal-error callback of a superseded client, and
\* the creation of a client for a superseded attempt, change neither the
\* flags, the message, the active method nor the media element.
SupersededDelivery ==
    \/ \E i \in 1..Len(hlsInstances) :
          /\ ~Current(hlsInstances[i].run)
          /\ HlsManifestParsed(i) \/ HlsError(i, TRUE)
    \/ /\ pending # <<>>
       /\ ~Current(Head(pending).run)
       /\ ImportSettles(TRUE)
    \/ OrphanEvent
    \/ OrphanImportSettles(TRUE)

C5_SupersededEventsIgnored ==
    [][SupersededDelivery =>
          UNCHANGED <<isLoading, hasError, errorMessage, connectionMethod, videoSrc>>]_vars

\* C6: right after a locator change the controller is in Loading(0): the
\* attempt under way uses the first method of the table.
C6_LocatorChangeEntersLoadingZero ==
    lastEvent = "load" =>
        /\ isLoading = TRUE
        /\ connectionMethod = methodAt(0)
        /\ cycle = <<methodAt(0)>>
        /\ AttemptInFlight
        /\ IsHlsSource(streamUrl) => pending[Len(pending)].method = methodAt(0)

C6_Witness ==
    /\ lastEvent = "load"
    /\ orphanInstances > 0
    /\ connectionMethod = "direct"
    /\ AttemptInFlight

\* C7: right after Retry an attach attempt with the first connection method
\* is under way.
C7_RetryReentersLoadingZero ==
    lastEvent = "retry" =>
        /\ isLoading = TRUE
        /\ connectionMethod = methodAt(0)
        /\ AttemptInFlight

\* C8: a native media error event moves the controller on like a fatal client
\* error: the next connection method is attempted, or the exhausted state is
\* reached.
C8_NativeErrorAdvances ==
    [][(NativeError /\ errorListeners > 0) =>
          \/ /\ connectionMethod' = methodAt(nextIndex(findIndex(connectionMethod)))
             /\ runs' = runs + 1
          \/ AllMethodsExhausted']_vars

\* C9: a success signal of the current attempt leaves the controller Playing
\* with the active method unchanged.
SuccessOfCurrentAttempt ==
    \/ \E i \in 1..Len(hlsInstances) :
          Current(hlsInstances[i].run) /\ HlsManifestParsed(i)
    \/ NativeCanPlay /\ canplayListeners > 0

C9_SuccessEntersPlaying ==
    [][SuccessOfCurrentAttempt =>
          /\ isLoading' = FALSE
          /\ hasError' = FALSE
          /\ connectionMethod' = connectionMethod]_vars

C9_Witness ==
    /\ lastEvent = "parsed"
    /\ Playing
    /\ \E i \in 1..Len(hlsInstances) :
          hlsInstances[i].run = runs /\ hlsInstances[i].status = "parsed"

\* C10: a non-fatal error event of a streaming client changes neither the
\* flags, the message nor the active method.
C10_NonFatalErrorChangesNothing ==
    [][(\E i \in 1..Len(hlsInstances) : HlsError(i, FALSE)) =>
          UNCHANGED <<isLoading, hasError, errorMessage, connectionMethod>>]_vars

C10_Witness ==
    /\ lastEvent = "nonfatal"
    /\ Playing
    /\ hlsInstances # <<>>

\* ------------------------------------------------------------- attach algorithm
\* Locators of up to MaxLocatorLen tokens: the inputs of the attach algorithm.
LocatorTokens == {"x", ".", "m3u8"}

AnyLocators ==
    UNION {[1..n -> LocatorTokens] : n \in 1..MaxLocatorLen}

\* The attach algorithm on its own: a locator is loaded, the import of its
\* attempt settles, the native element reports, the locator is given up.
NextAttach ==
    \/ \E url \in AnyLocators, title \in Titles : HandleStreamLoad(url, title)
    \/ ChangeStream
    \/ \E ok \in BOOLEAN : ImportSettles(ok)
    \/ NativeCanPlay

SpecAttach == Init /\ [][NextAttach]_vars

\* The locator names a segmented-streaming manifest: a dot followed by m3u8.
DenotesManifest(url) ==
    \E k \in 1..(Len(url) - 1) : url[k] = "." /\ url[k + 1] = "m3u8"

\* C11: a mounted manifest locator is never the native source of the element
\* and gets no native listener, and a client created for it is attached to
\* the element; any other locator is the native source of the element and has
\* neither a client nor an attempt waiting for the streaming library.
C11_AttachAlgorithm ==
    /\ (Mounted /\ DenotesManifest(streamUrl)) =>
          /\ videoSrc # streamUrl
          /\ canplayListeners = 0 /\ errorListeners = 0
          /\ lastEvent = "load" => Len(pending) = 1 /\ pending[1].run = runs
          /\ lastEvent = "attach" =>
                /\ videoSrc = BlobUrl
                /\ hlsInstances # <<>>
                /\ hlsInstances[Len(hlsInstances)].run = runs
    /\ (Mounted /\ ~DenotesManifest(streamUrl)) =>
          /\ videoSrc = streamUrl
          /\ pending = <<>>
          /\ hlsInstances = <<>> /\ stoppedInstances = 0
          /\ lastEvent = "load" => canplayListeners = 1 /\ errorListeners = 1

\* A manifest locator with text after the extension has its client attached.
C11_WitnessManifest ==
    /\ Mounted
    /\ streamUrl = <<".", "m3u8", "x">>
    /\ lastEvent = "attach"
    /\ videoSrc = BlobUrl

\* C12: every request of a streaming client carries the header set of the
\* method of its own attempt, and that method is the one shown as active when
\* the request is issued.
C12_RequestsCarryActiveHeaders ==
    lastRequest # NoRequest =>
        /\ \E k \in 0..(NumMethods - 1) : lastRequest.headers = headers(methodAt(k))
        /\ lastRequest.headers = headers(lastRequest.shown)

\* C13: the time-update that follows a seek to T, with no other move of the
\* position in between, reports T clamped into the element's range, to the
\* player state and to the page.
C13_SeekReportedOnNextTimeUpdate ==
    [][(TimeUpdate /\ seekPending # Undefined) =>
          /\ playerCurrentTime' = Clamp(seekPending[1], videoDuration)
          /\ pageCurrentTime' = Clamp(seekPending[1], videoDuration)]_vars

\* A seek beyond the duration was reported, clamped, to the page.
C13_Witness ==
    /\ lastEvent = "timeupdate"
    /\ seekTo = <<MaxTime + 1>>
    /\ videoDuration # NoDuration
    /\ pageCurrentTime = videoDuration[1]
    /\ playerCurrentTime = videoDuration[1]

\* C14: a seek request with a timestamp T that changes seekTo writes exactly T
\* to the element, whatever T is; seekTo becoming undefined writes nothing.
C14_SeekAppliedUnvalidated ==
    [][/\ \A T \in SeekTimestamps :
            (HandleSeekTo(T) /\ seekTo # <<T>>) =>
                /\ seekPending' = <<T>>
                /\ videoTime' = Clamp(T, videoDuration)
       /\ SeekResetFires => UNCHANGED <<videoTime, seekPending>>]_vars

\* A seek to 0 was written to an element that had moved on.
C14_Witness ==
    /\ lastEvent = "seek"
    /\ seekPending = <<0>>
    /\ videoTime = 0
    /\ playerCurrentTime > 0

\* C15: every time-update sets the player's currentTime and the page's
\* currentTime to the element's position, and every loadedmetadata sets the
\* player's duration to the element's duration.
C15_TimeReportedUnthrottled ==
    [][/\ TimeUpdate =>
            /\ playerCurrentTime' = videoTime
            /\ pageCurrentTime' = videoTime
       /\ (\E d \in 1..MaxTime : LoadedMetadata(d)) =>
            <<duration'>> = videoDuration']_vars

\* Playback reached the end of the media and the position was reported.
C15_Witness ==
    /\ lastEvent = "timeupdate"
    /\ duration = MaxTime
    /\ pageCurrentTime = MaxTime
    /\ playerCurrentTime = MaxTime
    /\ seeks = 0

\* C16: the commentary list never holds more than 50 entries, and its first
\* element is the entry added last.
C16_CommentaryBounded ==
    /\ Len(commentary) <= 50
    /\ Mounted => commentary # <<>> /\ commentary[1] = commentaryAdded

\* More than 50 entries were added and the list is full.
C16_Witness ==
    /\ commentaryAdded > 55
    /\ Len(commentary) = 50
    /\ commentary[1] = commentaryAdded

\* The entry carries a non-empty value under a recognized URL field.
HasUrlField(entry) ==
    /\ entry.kind = "object"
    /\ \E f \in {"video_url", "dai_url", "pub_url"} :
          f \in DOMAIN entry.fields /\ entry.fields[f] # EmptyString

\* C17: once a document with a matches array is decoded, entry k of matches
\* is in the source list exactly if it carries a URL field, and every source
\* has a non-empty title.
C17_CatalogDecoding ==
    (~fetchPending /\ HasMatchesArray(catalogDocument)) =>
        LET items == catalogDocument.data.matches.items
        IN  /\ \A k \in 1..Len(items) :
                  HasUrlField(items[k]) <=>
                      \E j \in 1..Len(streams) : streams[j].id = <<"match-", k - 1>>
            /\ \A j \in 1..Len(streams) : streams[j].title # EmptyString

\* C18: a failed fetch or decoding leaves the source list empty and raises
\* the warning, every settled fetch clears loadingStreams, and after a
\* failure Load Stream still loads an acceptable custom URL.
FetchFailed == catalogDocument # NoDocument /\ FetchThrows(catalogDocument)

C18_FetchFailureDegrades ==
    [][/\ FetchSettles(catalogDocument') =>
            /\ loadingStreams' = FALSE
            /\ FetchThrows(catalogDocument') =>
                  streams' = <<>> /\ lastToast' = WarningToast
       /\ (HandleLoadStream /\ FetchFailed /\ AcceptsUrl(customUrl)) =>
            streamUrl' = customUrl]_vars

\* After the fetch of the first input failed, a typed URL was loaded.
C18_Witness ==
    /\ runs = 1
    /\ lastEvent = "load"
    /\ lastToast = WarningToast
    /\ streamUrl = HlsLocator

\* C19: Load Stream with a locator that does not contain m3u8 raises a
\* message and changes nothing else; with a locator that contains m3u8 it
\* hands that locator to the page unchanged.
C19_CustomEntryCheck ==
    [][HandleLoadStream =>
          LET url == IF selectedStream # EmptyString THEN selectedStream
                     ELSE customUrl
          IN  IF \E k \in 1..Len(url) : url[k] = "m3u8"
                THEN streamUrl' = url /\ streamTitle' = EmptyString
                ELSE /\ lastToast' \in {NoStreamToast, InvalidUrlToast}
                     /\ UNCHANGED <<PageVars, PlayerVars, InputVars, PanelVars>>]_vars

\* A locator without m3u8 was rejected, then one with m3u8 and no dot was
\* handed on.
C19_Witness ==
    /\ runs = 1
    /\ lastToast = InvalidUrlToast
    /\ lastEvent = "load"
    /\ streamUrl = <<"x", "m3u8">>

\* C20: no exception escapes to the page level, and right after a failure of
\* the streaming library to load or of the native element the failure shows
\* in hasError and errorMessage.
C20_NoUncaughtFailure ==
    /\ uncaught = FALSE
    /\ lastEvent \in {"throw", "nativeError"} =>
          hasError = TRUE /\ errorMessage # NoMessage

\* C25: in the player isLoading and hasError are never both true, so the
\* status badge shows exactly one of Loading, Error and Connected, and
\* hasError = TRUE implies a non-empty errorMessage.
C25_LoadingErrorExclusive ==
    /\ ~(isLoading /\ hasError)
    /\ hasError => errorMessage # NoMessage

\* The failure of a superseded attempt shows the error overlay while the
\* attempt that replaced it still waits for the library.
C25_Witness ==
    /\ lastEvent = "throw"
    /\ hasError
    /\ ~isLoading
    /\ errorMessage = FailedToLoadMessage(InitialConnectionMethod)
    /\ connectionMethod # InitialConnectionMethod
    /\ pending # <<>>

\* C27: every advance of the connection method, by a fatal error or by the
\* Try Next Method button, moves from the method active at that moment to
\* its successor (index + 1) mod N.
C27_AdvanceToSuccessor ==
    [][(NextMethodClick \/ \E i \in 1..MaxRuns : HlsError(i, TRUE)) =>
          \/ connectionMethod' = connectionMethod
          \/ findIndex(connectionMethod') =
                (findIndex(connectionMethod) + 1) % NumMethods]_vars

\* C28: the active connection method is always the id of an entry of the
\* connection-method table, and so is the method of every attempt and of
\* every streaming client.
C28_ActiveMethodInTable ==
    LET ids == {connectionMethods[k] : k \in 1..NumMethods}
    IN  /\ connectionMethod \in ids
        /\ findIndex(connectionMethod) \in 0..(NumMethods - 1)
        /\ \A k \in 1..Len(pending) : pending[k].method \in ids
        /\ \A i \in 1..Len(hlsInstances) : hlsInstances[i].method \in ids

\* A method picked in the dialog failed fatally and the advance wrapped from
\* the last entry of the table to the first.
C28_Witness ==
    /\ lastEvent = "fatal"
    /\ cycle = <<"hls", "direct">>
    /\ connectionMethod = "direct"

\* C29: the player is mounted iff streamUrl is non-empty and the stream input
\* is shown iff it is empty; the locator of a mounted player never changes;
\* a locator leaves through Change Stream, which empties streamUrl and puts
\* currentTime to 0, and the next locator gets a fresh player instance.
C29_LocatorFixedPerInstance ==
    /\ [](InputRendered <=> ~Mounted)
    /\ [][/\ (Mounted /\ streamUrl' # EmptyString) => streamUrl' = streamUrl
          /\ (Mounted /\ streamUrl' = EmptyString) =>
                pageCurrentTime' = 0 /\ lastEvent' = "change"
          /\ (~Mounted /\ streamUrl' # EmptyString) =>
                /\ runs' = runs + 1
                /\ connectionMethod' = InitialConnectionMethod
                /\ hasError' = FALSE /\ errorMessage' = NoMessage
                /\ isLoading' = TRUE
                /\ playerCurrentTime' = 0 /\ duration' = 0
                /\ hlsInstances' = <<>> /\ stoppedInstances' = 0]_vars

\* A second locator was loaded after Change Stream took the first one away
\* while its attempt was waiting for the library.
C29_Witness ==
    /\ lastEvent = "load"
    /\ runs = 2
    /\ streamUrl = NativeLocator
    /\ orphanPending = 1

\* C26: every seek request with a timestamp T writes T to the media element,
\* also one that follows an earlier request with the same T, whatever the
\* time between the two.
C26_RepeatedSeekApplied ==
    [][\A T \in SeekTimestamps :
          HandleSeekTo(T) =>
              /\ seekPending' = <<T>>
              /\ videoTime' = Clamp(T, videoDuration)]_vars

\* C21: each of the commentary and highlights panels has at most one interval
\* set while it is mounted and none once it is unmounted, and an unmounted
\* panel holds no entry.
C21_PanelTimersDoNotLeak ==
    /\ Mounted => commentaryTimers <= 1 /\ highlightsTimers <= 1
    /\ ~Mounted =>
          /\ commentaryTimers = 0 /\ highlightsTimers = 0
          /\ commentary = <<>> /\ highlights = <<>>

\* On the second mount of the panels both timers have fired and a time
\* update has run the highlights effect again.
C21_Witness ==
    /\ runs = 2
    /\ lastEvent = "timeupdate"
    /\ pageCurrentTime > 0
    /\ commentaryAdded > 1
    /\ highlights # <<>>
    /\ commentaryTimers = 1
    /\ highlightsTimers = 1

\* C22: a playback time update neither cancels nor restarts the pending
\* highlights interval: the time it has waited so far is kept.
C22_TimeUpdateKeepsHighlightsTimer ==
    [][TimeUpdate => UNCHANGED <<highlightsTimers, highlightsElapsed>>]_vars

\* C23: while the panel is mounted the highlights list changes only by a new
\* highlight at its front, the rest staying as it was, and a click on a
\* highlight requests a seek to the timestamp stored in it.
C23_HighlightsAccumulate ==
    [][/\ (Mounted /\ Mounted' /\ highlights' # highlights) =>
             /\ highlights' # <<>>
             /\ Tail(highlights') = highlights
             /\ Head(highlights').timestamp = pageCurrentTime
       /\ \A k \in 1..MaxHighlights :
             HighlightClick(k) => seekTo' = <<highlights[k].timestamp>>]_vars

\* The older of two highlights, taken at an earlier position than the one the
\* page shows, was clicked.
C23_Witness ==
    /\ lastEvent = "seek"
    /\ Len(highlights) = 2
    /\ seekTo = <<highlights[2].timestamp>>
    /\ highlights[2].timestamp # highlights[1].timestamp
    /\ highlights[2].timestamp # pageCurrentTime

\* The position of the first occurrence of pat in s at or after k, 0 if none.
IndexFrom(s, pat, k) ==
    LET hits == {i \in k..(Len(s) - Len(pat) + 1) :
                    SubSeq(s, i, i + Len(pat) - 1) = pat}
    IN  IF hits = {} THEN 0 ELSE CHOOSE i \in hits : \A j \in hits : i <= j

\* The host of a URL: the token that follows the scheme and the subdomain.
HostOf(url) ==
    LET k == IF url[2] \in {"www.", "m."} THEN 3 ELSE 2
    IN  [at |-> k, name |-> url[k]]

\* The video a URL of the video-hosting domain identifies: the v parameter of
\* a watch page, the id of a live or embed page, the path of a short link;
\* <<>> if the URL has none of these forms.
IdentifiedVideo(url) ==
    LET h == HostOf(url).at
        vAt == IndexFrom(url, <<"v=">>, h)
    IN  IF url[h] = "youtu.be"
          THEN IF Len(url) >= h + 2 /\ (Len(url) = h + 2 \/ url[h + 3] \in {"?", "#"})
                 THEN <<url[h + 2]>> ELSE <<>>
        ELSE IF url[h + 2] = "watch"
          THEN IF vAt # 0 /\ vAt < Len(url) THEN <<url[vAt + 1]>> ELSE <<>>
        ELSE IF url[h + 2] \in {"live", "embed"} /\ Len(url) >= h + 4
          THEN <<url[h + 4]>>
        ELSE <<>>

\* C24: for a URL of the video-hosting domain the embed URL is the provider's
\* embed URL of the video the input identifies; for any other URL it is the
\* demo player URL followed by the input percent-encoded, and decoding that
\* parameter gives the input back.
C24_EmbedFallback ==
    embedSrc # EmptyString =>
       IF HostOf(embedSrc).name \in {"youtube.com", "youtu.be"}
         THEN IdentifiedVideo(embedSrc) # <<>> =>
                 embedUrl = YouTubeEmbed(IdentifiedVideo(embedSrc))
         ELSE /\ Len(embedUrl) = Len(DemoPlayer) + Len(embedSrc)
              /\ SubSeq(embedUrl, 1, Len(DemoPlayer)) = DemoPlayer
              /\ decodeURIComponent(SubSeq(embedUrl, Len(DemoPlayer) + 1,
                                           Len(embedUrl))) = embedSrc

\* C30: at most one streaming client of VideoPlayer is alive; the client
\* alive is the one hlsRef holds and was created for the current source;
\* after a change of the source or an unmount no client of the previous
\* source is alive.
C30_OneClientAlive ==
    /\ Cardinality(vpAlive) <= 1
    /\ \A c \in vpAlive : vpMounted /\ c.id = hlsRef /\ c.src = vpSrc
    /\ hlsRef # 0 => \E c \in vpAlive : c.id = hlsRef
    /\ ~vpMounted => hlsRef = 0

\* The third client of a player is alive for the source the player was given
\* last, the first two having been destroyed when the source changed, and
\* it has failed with a fatal error.
C30_Witness ==
    /\ vpCreated = 3
    /\ vpMounted
    /\ vpSrc = NativeLocator
    /\ hlsRef = 3
    /\ vpAlive = {[id |-> 3, src |-> NativeLocator]}
    /\ vpHasError

C32_VideoOverlaysExclusive == ~(vpIsLoading /\ vpHasError)

\* The locator has the token m3u8.
HasM3u8(url) == \E k \in 1..Len(url) : url[k] = "m3u8"

\* C33: with a catalog stream selected, Load Stream checks and loads the
\* selected stream's URL whatever the custom URL field holds; without a
\* selection it checks and loads the custom URL; a click on a catalog card
\* loads the card's URL and title without the m3u8 check.
C33_LoadStreamLocator ==
    [][/\ (HandleLoadStream /\ selectedStream # EmptyString) =>
             IF HasM3u8(selectedStream)
               THEN streamUrl' = selectedStream
               ELSE streamUrl' = EmptyString /\ lastToast' = InvalidUrlToast
       /\ (HandleLoadStream /\ selectedStream = EmptyString) =>
             IF HasM3u8(customUrl)
               THEN streamUrl' = customUrl
               ELSE streamUrl' = EmptyString /\ lastToast' = InvalidUrlToast
       /\ \A k \in 1..Len(streams) :
             HandleQuickLoad(k) =>
                 streamUrl' = streams[k].url /\ streamTitle' = streams[k].title]_vars

\* Load Stream has just rejected the selected stream, which has no m3u8,
\* while the custom URL field holds a locator it would have accepted.
C33_Witness ==
    /\ lastEvent = "rejected"
    /\ lastToast = InvalidUrlToast
    /\ selectedStream = NativeLocator
    /\ customUrl = HlsLocator

\* The first of video_url, dai_url, pub_url the entry carries with a
\* non-empty value; the empty string if it carries none.
PriorityUrl(entry) ==
    LET present(f) == f \in DOMAIN entry.fields /\ entry.fields[f] # EmptyString
    IN  IF present("video_url") THEN entry.fields["video_url"]
        ELSE IF present("dai_url") THEN entry.fields["dai_url"]
        ELSE IF present("pub_url") THEN entry.fields["pub_url"]
        ELSE EmptyString

\* The position in matches (0-based) a source's identifier names.
IndexOf(stream) == stream.id[2]

\* C34: after a document with a matches array is decoded, every source
\* comes from an entry of the document and has the first non-empty of that
\* entry's video_url, dai_url, pub_url as its URL; the sources are in the
\* order of their entries, so their identifiers are pairwise distinct; and
\* the list depends on the document only.
C34_DecodingDeterministic ==
    (~fetchPending /\ HasMatchesArray(catalogDocument)) =>
        LET items == catalogDocument.data.matches.items
        IN  /\ \A j \in 1..Len(streams) :
                  /\ IndexOf(streams[j]) + 1 \in 1..Len(items)
                  /\ items[IndexOf(streams[j]) + 1].kind = "object"
                  /\ streams[j].url = PriorityUrl(items[IndexOf(streams[j]) + 1])
                  /\ streams[j].url # EmptyString
            /\ \A i, j \in 1..Len(streams) :
                  i < j => IndexOf(streams[i]) < IndexOf(streams[j])
            /\ ~FetchThrows(catalogDocument) =>
                  /\ streams = StreamList(catalogDocument)
                  /\ \A k \in 1..Len(items) :
                        PriorityUrl(items[k]) # EmptyString =>
                            \E j \in 1..Len(streams) : IndexOf(streams[j]) = k - 1

\* A document of two entries was decoded whose first entry carries
\* video_url and dai_url and whose second carries dai_url and pub_url.
C34_Witness ==
    /\ ~fetchPending
    /\ HasMatchesArray(catalogDocument)
    /\ Len(streams) = 2
    /\ LET items == catalogDocument.data.matches.items
       IN  /\ {"video_url", "dai_url"} \subseteq DOMAIN items[1].fields
           /\ {"dai_url", "pub_url"} \subseteq DOMAIN items[2].fields
    /\ streams[1].url = HlsLocator
    /\ streams[2].url = HlsLocator

\* The entries k, k - 1, ... down to the n-th most recent, newest first.
MostRecent(k, n) == [i \in 1..(IF k < n THEN k ELSE n) |-> k - i + 1]

\* C35: after k entries were added to a mounted commentary panel its list
\* is the min(k, 50) entries added last, newest first; the panel holds one
\* entry right after it mounts, and a timer fire adds exactly one entry.
C35_CommentaryEvictsOldest ==
    [][/\ Mounted' => commentary' = MostRecent(commentaryAdded', 50)
       /\ runs' # runs => commentary' = <<1>> /\ commentaryAdded' = 1
       /\ CommentaryTimerFires =>
             /\ commentaryAdded' = commentaryAdded + 1
             /\ commentary'[1] = commentaryAdded + 1
             /\ Len(commentary') = (IF Len(commentary) < 50
                                      THEN Len(commentary) + 1 ELSE 50)
             /\ \A i \in 2..Len(commentary') : commentary'[i] = commentary[i - 1]]_vars

\* Fifty-two entries were added: the list holds entries 52 down to 3.
C35_Witness ==
    /\ Mounted
    /\ commentaryAdded = 52
    /\ Len(commentary) = 50
    /\ commentary[1] = 52
    /\ commentary[50] = 3

\* C36: once every queued play and pause event is delivered, isPlaying is
\* true exactly when the media element is not paused.
C36_IsPlayingAgrees ==
    (Mounted /\ mediaEvents = <<>>) => (isPlaying <=> ~videoPaused)

\* The number a text of decimal digits denotes.
DigitValue(char) == CHOOSE d \in 0..9 : DigitChars[d + 1] = char

IsDigits(text) ==
    \A k \in 1..Len(text) : \E d \in 0..9 : DigitChars[d + 1] = text[k]

RECURSIVE ValueOf(_)
ValueOf(text) ==
    IF text = <<>> THEN 0
    ELSE 10 * ValueOf(SubSeq(text, 1, Len(text) - 1)) + DigitValue(text[Len(text)])

\* C37: for a whole number of seconds t, formatTime gives "m:ss": digits, a
\* colon, exactly two digits, with ss below 60 and 60 * m + ss = t.
C37_FormatTime ==
    formatted # NoText =>
        /\ Len(formatted) >= 4
        /\ formatted[Len(formatted) - 2] = ":"
        /\ LET m  == SubSeq(formatted, 1, Len(formatted) - 3)
               ss == SubSeq(formatted, Len(formatted) - 1, Len(formatted))
           IN  /\ IsDigits(m)
               /\ IsDigits(ss)
               /\ ValueOf(ss) < 60
               /\ 60 * ValueOf(m) + ValueOf(ss) = formatInput

\* 3725 seconds were formatted: 62 minutes and 5 seconds, the seconds padded.
C37_Witness ==
    /\ formatInput = 3725
    /\ formatted = <<"6", "2", ":", "0", "5">>

====
